---- MODULE Spec2Model ----
(***************************************************************************)
(* download-stats: the raw store (github_snapshots, crates_downloads,      *)
(* crates_metadata), the collect command that fills it, and the weekly     *)
(* aggregation engine (compute_crates_weekly, compute_github_weekly,       *)
(* compute_all_weekly) that derives weekly_stats from it, and the query    *)
(* and export commands that read it.                                       *)
(*                                                                         *)
(* A date column is TEXT "YYYY-MM-DD"; it is modelled by the triple        *)
(* <<year, month, day>> of its three numeric fields, whose lexicographic   *)
(* order is the text order of the fixed-width form. A chrono NaiveDate is  *)
(* modelled by its day number (num_days_from_ce: 0001-01-01 is day 1).     *)
(* parse_from_str and to_string convert between the two.                   *)
(***************************************************************************)
EXTENDS Integers, Sequences, FiniteSets, TLC

(***************************************************************************)
(* Bounds of the model                                                     *)
(***************************************************************************)
\* releases in one fetched GitHub listing
MaxReleases == 1
\* releases in one listing fetched by the command that collects GitHub only,
\* and the assets of all of them together
MaxListing == 2
MaxListingAssets == 3
\* assets of one fetched release
MaxAssets == 2
\* per-version records, and extra records, in one crates.io downloads response
MaxRecords == 1
\* rows of github_snapshots and crates_downloads together
MaxRows == 2
\* rows of crates_metadata
MaxMetadata == 1
\* rows of github_snapshots and crates_downloads together in a stored database
MaxStored == 3
\* days after the first day of each window of dates get_week_start is called on
MaxDateSpan == 40
\* rows of github_snapshots and crates_downloads together in a stored database
\* with counts up to i64::MAX, and the days of its one week
MaxWide == 6
\* pages a repository's releases fill at most
MaxPages == 3
\* per_page of fetch_releases
PerPage == 100
\* bits of the words that stand for the 64-bit integers of the program
WordBits == 5

(***************************************************************************)
(* Calendar: chrono::NaiveDate                                             *)
(***************************************************************************)
IsLeap(y) == (y % 4 = 0 /\ y % 100 # 0) \/ y % 400 = 0

DaysInMonth(y, m) ==
    IF m = 2 THEN (IF IsLeap(y) THEN 29 ELSE 28)
    ELSE IF m \in {4, 6, 9, 11} THEN 30 ELSE 31

\* days from 0000-03-01 to y-m-d, then shifted so that 0001-01-01 is day 1
DaysFromCivil(y, m, d) ==
    LET yy  == IF m <= 2 THEN y - 1 ELSE y
        era == yy \div 400
        yoe == yy - era * 400
        mp  == IF m > 2 THEN m - 3 ELSE m + 9
        doy == (153 * mp + 2) \div 5 + d - 1
        doe == yoe * 365 + yoe \div 4 - yoe \div 100 + doy
    IN  era * 146097 + doe - 305

\* NaiveDate::MIN, January 1 of year -262143, as a day number
MinDate == DaysFromCivil(-262143, 1, 1)
\* stands for the panic of `NaiveDate - TimeDelta` on a date before NaiveDate::MIN
Overflowed == MinDate - 1
\* stands for the Err of parse_from_str
Unparsed == MinDate - 2

\* NaiveDate::parse_from_str(s, "%Y-%m-%d") of a text without a sign (a year
\* of at most four digits): the day number, or Unparsed for Err
parse_from_str(s) ==
    IF /\ s[1] \in 0..9999
       /\ s[2] \in 1..12
       /\ s[3] \in 1..DaysInMonth(s[1], s[2])
    THEN DaysFromCivil(s[1], s[2], s[3])
    ELSE Unparsed

\* NaiveDate::to_string(): "YYYY-MM-DD" of a day number
to_string(n) ==
    LET z   == n + 305
        era == z \div 146097
        doe == z - era * 146097
        yoe == (doe - doe \div 1460 + doe \div 36524 - doe \div 146096) \div 365
        doy == doe - (365 * yoe + yoe \div 4 - yoe \div 100)
        mp  == (5 * doy + 2) \div 153
        d   == doy - (153 * mp + 2) \div 5 + 1
        m   == IF mp < 10 THEN mp + 3 ELSE mp - 9
        y   == yoe + era * 400 + (IF m <= 2 THEN 1 ELSE 0)
    IN  <<y, m, d>>

\* mutant: Weekday::num_days_from_sunday
num_days_from_sunday(n) == n % 7

\* Weekday::num_days_from_monday of a day number (0001-01-01 is a Monday)
num_days_from_monday(n) == (n - 1) % 7

\* mutant: the date itself, no bucketing
get_week_start_same_day(date) == date

\* mutant: a Monday is sent to the Monday before it
get_week_start_before(date) ==
    IF date - 1 - num_days_from_monday(date - 1) < MinDate THEN Overflowed
    ELSE date - 1 - num_days_from_monday(date - 1)

\* get_week_start: the date minus its days from Monday; the subtraction panics
\* when the result is no NaiveDate
get_week_start(date) ==
    IF date - num_days_from_monday(date) < MinDate THEN Overflowed
    ELSE date - num_days_from_monday(date)

(***************************************************************************)
(* Text order (SQLite's BINARY collation) on the strings of the model      *)
(***************************************************************************)
Texts == <<"", "1", "a.tar.gz", "b.zip", "cargo-nextest", "cargo-nextest-0.9.1",
           "crates", "github", "nextest-runner", "releases", "v0.1.0">>

TextRank(s) == CHOOSE i \in 1..Len(Texts) : Texts[i] = s

DateTextLess(a, b) ==
    \/ a[1] < b[1]
    \/ a[1] = b[1] /\ a[2] < b[2]
    \/ a[1] = b[1] /\ a[2] = b[2] /\ a[3] < b[3]

\* str::starts_with("cargo-nextest-") on the tags of the model
StartsWithCargoNextest(tag) == tag \in {"cargo-nextest-0.9.1"}

(***************************************************************************)
(* Integers: u64 and i64, scaled to words of WordBits bits                 *)
(***************************************************************************)
\* u64::MAX + 1, and i64::MAX
U64Modulus == 2^WordBits
I64Max == 2^(WordBits - 1) - 1
I64Min == 0 - 2^(WordBits - 1)

\* `u as i64` of a u64: the same bits read as two's complement
u64_as_i64(u) == IF u > I64Max THEN u - U64Modulus ELSE u

\* `i as u64` of an i64
i64_as_u64(i) == IF i < 0 THEN i + U64Modulus ELSE i

\* a - b on i64 where the overflow check is off
i64_wrapping_sub(a, b) == u64_as_i64((a - b) % U64Modulus)

(***************************************************************************)
(* The store: each table is the set of its rows                            *)
(***************************************************************************)
VARIABLES github_snapshots, crates_downloads, crates_metadata, weekly_stats

\* mutant: INSERT OR IGNORE
insert_github_snapshot_ignoring(tbl, date, release_tag, asset_name, download_count) ==
    IF \E r \in tbl : /\ r.date = to_string(date)
                      /\ r.release_tag = release_tag
                      /\ r.asset_name = asset_name
    THEN tbl
    ELSE tbl \cup {[date |-> to_string(date), release_tag |-> release_tag,
                    asset_name |-> asset_name,
                    download_count |-> download_count]}

\* INSERT OR REPLACE INTO github_snapshots, PRIMARY KEY (date, release_tag, asset_name)
insert_github_snapshot(tbl, date, release_tag, asset_name, download_count) ==
    LET row == [date |-> to_string(date), release_tag |-> release_tag,
                asset_name |-> asset_name,
                download_count |-> u64_as_i64(download_count)]
    IN  {r \in tbl : ~(/\ r.date = row.date
                       /\ r.release_tag = row.release_tag
                       /\ r.asset_name = row.asset_name)} \cup {row}

\* INSERT OR REPLACE INTO crates_downloads, PRIMARY KEY (date, crate_name, version);
\* version is "" for None
insert_crates_download(tbl, date, crate_name, version, downloads) ==
    LET row == [date |-> to_string(date), crate_name |-> crate_name,
                version |-> version, downloads |-> u64_as_i64(downloads)]
    IN  {r \in tbl : ~(/\ r.date = row.date
                       /\ r.crate_name = row.crate_name
                       /\ r.version = row.version)} \cup {row}

\* INSERT OR REPLACE INTO crates_metadata, PRIMARY KEY (date, crate_name)
insert_crates_metadata(tbl, date, crate_name, total_downloads, recent_downloads) ==
    LET row == [date |-> to_string(date), crate_name |-> crate_name,
                total_downloads |-> u64_as_i64(total_downloads),
                recent_downloads |-> u64_as_i64(recent_downloads)]
    IN  {r \in tbl : ~(r.date = row.date /\ r.crate_name = row.crate_name)}
            \cup {row}

\* mutant: ON CONFLICT DO UPDATE SET downloads = downloads + excluded.downloads
insert_weekly_stat_adding(tbl, week_start, source, identifier, downloads) ==
    LET old == {r \in tbl : /\ r.week_start = to_string(week_start)
                            /\ r.source = source
                            /\ r.identifier = identifier}
    IN  (tbl \ old)
           \cup {[week_start |-> to_string(week_start), source |-> source,
                  identifier |-> identifier,
                  downloads |-> downloads
                     + (IF old = {} THEN 0
                        ELSE (CHOOSE r \in old : TRUE).downloads)]}

\* mutant: a table without the primary key, plain INSERT
insert_weekly_stat_appending(tbl, week_start, source, identifier, downloads) ==
    tbl \cup {[week_start |-> to_string(week_start), source |-> source,
               identifier |-> identifier, downloads |-> downloads]}

\* mutant: INSERT OR IGNORE
insert_weekly_stat_ignoring(tbl, week_start, source, identifier, downloads) ==
    IF \E r \in tbl : /\ r.week_start = to_string(week_start)
                      /\ r.source = source
                      /\ r.identifier = identifier
    THEN tbl
    ELSE tbl \cup {[week_start |-> to_string(week_start), source |-> source,
                    identifier |-> identifier, downloads |-> downloads]}

\* INSERT OR REPLACE INTO weekly_stats, PRIMARY KEY (week_start, source, identifier)
insert_weekly_stat(tbl, week_start, source, identifier, downloads) ==
    LET row == [week_start |-> to_string(week_start), source |-> source,
                identifier |-> identifier, downloads |-> u64_as_i64(downloads)]
    IN  {r \in tbl : ~(/\ r.week_start = row.week_start
                       /\ r.source = row.source
                       /\ r.identifier = row.identifier)} \cup {row}

(***************************************************************************)
(* Helpers on finite sets and maps                                         *)
(***************************************************************************)
RECURSIVE SumDownloads(_)
\* SUM(downloads) over a set of crates_downloads rows
SumDownloads(S) ==
    IF S = {} THEN 0
    ELSE LET r == CHOOSE x \in S : TRUE
         IN  r.downloads + SumDownloads(S \ {r})

\* mutant: the entry is assigned, not added to
MapAssign(m, k, v) == [x \in DOMAIN m \cup {k} |-> IF x = k THEN v ELSE m[x]]

\* the value *entry(k).or_insert(0) is added to
MapGet(m, k) == IF k \in DOMAIN m THEN m[k] ELSE 0

\* *entry(k).or_insert(0) += v on u64 goes over u64::MAX
AddOverflows(m, k, v) == MapGet(m, k) + v >= U64Modulus

\* HashMap *entry(k).or_insert(0) += v on u64, wrapping where the overflow
\* check is off
MapAdd(m, k, v) ==
    IF k \in DOMAIN m THEN [m EXCEPT ![k] = (@ + v) % U64Modulus]
    ELSE m @@ (k :> v)

\* HashMap insert(k, v)
MapPut(m, k, v) ==
    IF k \in DOMAIN m THEN [m EXCEPT ![k] = v] ELSE m @@ (k :> v)

EmptyMap == [k \in {} |-> 0]

(***************************************************************************)
(* compute_crates_weekly: the query and the grouping loop                  *)
(***************************************************************************)
RECURSIVE SumFails(_, _)
\* SUM(downloads) fails with "integer overflow": the rows S of a group are
\* added to acc in primary-key order (by version), and a partial sum leaves
\* the i64 range
SumFails(S, acc) ==
    IF S = {} THEN FALSE
    ELSE LET r == CHOOSE x \in S :
                      \A y \in S \ {x} : TextRank(x.version) < TextRank(y.version)
             sum == acc + r.downloads
         IN  sum > I64Max \/ sum < I64Min \/ SumFails(S \ {r}, sum)

\* mutant: the query sums the per-version rows only (WHERE version != '')
CratesGroupsVersioned(cd) ==
    {[date |-> g[1], crate_name |-> g[2],
      total |-> SumDownloads({r \in cd : r.date = g[1] /\ r.crate_name = g[2]
                                          /\ r.version # ""}),
      fails |-> SumFails({r \in cd : r.date = g[1] /\ r.crate_name = g[2]
                                       /\ r.version # ""}, 0)]
        : g \in {<<r.date, r.crate_name>> : r \in cd}}

\* the rows of SELECT date, crate_name, SUM(downloads) ... GROUP BY date,
\* crate_name; fails marks a group whose SUM fails
CratesGroups(cd) ==
    {[date |-> g[1], crate_name |-> g[2],
      total |-> SumDownloads({r \in cd : r.date = g[1] /\ r.crate_name = g[2]}),
      fails |-> SumFails({r \in cd : r.date = g[1] /\ r.crate_name = g[2]}, 0)]
        : g \in {<<r.date, r.crate_name>> : r \in cd}}

CratesRowLess(a, b) ==
    \/ DateTextLess(a.date, b.date)
    \/ a.date = b.date /\ TextRank(a.crate_name) < TextRank(b.crate_name)

RECURSIVE CratesSorted(_)
\* ... ORDER BY date (groups of one date in crate_name order)
CratesSorted(S) ==
    IF S = {} THEN <<>>
    ELSE LET r == CHOOSE x \in S : \A y \in S \ {x} : CratesRowLess(x, y)
         IN  <<r>> \o CratesSorted(S \ {r})

CratesQuery(cd) == CratesSorted(CratesGroups(cd))

\* the query is sorted by a temporary b-tree (ORDER BY date): every group is
\* summed before the first row is returned, so one failing SUM fails the
\* query at its first step
QueryFails(rows) == \E i \in DOMAIN rows : rows[i].fails

\* the error of SUM() leaving the i64 range ("integer overflow"): no date string
IntegerOverflow == <<>>

RECURSIVE CratesLoop(_, _, _)
\* the loop over the rows from row i on: Err at the first row whose date does
\* not parse (with the offending date string), else the weekly_data map
\* (keyed by <<week_start, crate_name>>); overflow tells whether a += went
\* over u64::MAX on the way
CratesLoop(rows, i, weekly) ==
    IF i > Len(rows)
    THEN [ok |-> TRUE, weekly_data |-> weekly, overflow |-> FALSE]
    ELSE LET date == parse_from_str(rows[i].date)
             key  == <<get_week_start(date), rows[i].crate_name>>
             downloads == i64_as_u64(rows[i].total)
         IN  IF date = Unparsed
             THEN [ok |-> FALSE, error |-> rows[i].date, overflow |-> FALSE]
             ELSE [CratesLoop(rows, i + 1, MapAdd(weekly, key, downloads))
                     EXCEPT !.overflow = @ \/ AddOverflows(weekly, key, downloads)]

RECURSIVE CratesLoopLenient(_, _, _)
\* the loop skipping the rows whose date does not parse
CratesLoopLenient(rows, i, weekly) ==
    IF i > Len(rows)
    THEN [ok |-> TRUE, weekly_data |-> weekly, overflow |-> FALSE]
    ELSE LET date == parse_from_str(rows[i].date)
         IN  IF date = Unparsed
             THEN CratesLoopLenient(rows, i + 1, weekly)
             ELSE CratesLoopLenient(rows, i + 1,
                     MapAdd(weekly, <<get_week_start(date), rows[i].crate_name>>,
                            i64_as_u64(rows[i].total)))

\* mutant: a row whose date does not parse is skipped
CratesScanLenient(rows, i, weekly) ==
    IF QueryFails(rows)
    THEN [ok |-> FALSE, error |-> IntegerOverflow, overflow |-> FALSE]
    ELSE CratesLoopLenient(rows, i, weekly)

\* mutant: a query that returns no row is an error (QueryReturnedNoRows)
CratesScanNoRows(rows, i, weekly) ==
    IF QueryFails(rows) \/ Len(rows) = 0
    THEN [ok |-> FALSE, error |-> IntegerOverflow, overflow |-> FALSE]
    ELSE CratesLoop(rows, i, weekly)

\* the rows of the query from row i on go through the loop: Err("integer
\* overflow") before any row when a SUM fails, else the outcome of the loop
CratesScan(rows, i, weekly) ==
    IF QueryFails(rows)
    THEN [ok |-> FALSE, error |-> IntegerOverflow, overflow |-> FALSE]
    ELSE CratesLoop(rows, i, weekly)

(***************************************************************************)
(* compute_github_weekly: the query and the delta loop                     *)
(***************************************************************************)
\* mutant: ORDER BY release_tag, asset_name, date DESC
GithubRowLessDescending(a, b) ==
    \/ TextRank(a.release_tag) < TextRank(b.release_tag)
    \/ /\ a.release_tag = b.release_tag
       /\ TextRank(a.asset_name) < TextRank(b.asset_name)
    \/ /\ a.release_tag = b.release_tag
       /\ a.asset_name = b.asset_name
       /\ DateTextLess(b.date, a.date)

\* ORDER BY release_tag, asset_name, date
GithubRowLess(a, b) ==
    \/ TextRank(a.release_tag) < TextRank(b.release_tag)
    \/ /\ a.release_tag = b.release_tag
       /\ TextRank(a.asset_name) < TextRank(b.asset_name)
    \/ /\ a.release_tag = b.release_tag
       /\ a.asset_name = b.asset_name
       /\ DateTextLess(a.date, b.date)

RECURSIVE GithubSorted(_)
\* SELECT ... FROM github_snapshots ORDER BY release_tag, asset_name, date
GithubSorted(S) ==
    IF S = {} THEN <<>>
    ELSE LET r == CHOOSE x \in S : \A y \in S \ {x} : GithubRowLess(x, y)
         IN  <<r>> \o GithubSorted(S \ {r})

GithubQuery(gs) == GithubSorted(gs)

\* mutant: the difference without .max(0)
DeltaUnclamped(download_count, prev_count) == download_count - prev_count

\* (download_count - prev_count).max(0) as u64; the subtraction is on i64
Delta(download_count, prev_count) ==
    IF i64_wrapping_sub(download_count, prev_count) > 0
    THEN i64_wrapping_sub(download_count, prev_count)
    ELSE 0

\* mutant: the delta goes to the week of the earlier snapshot
GithubStepEarlierWeek(st, row, date) ==
    LET key == <<row.release_tag, row.asset_name>>
    IN  [prev   |-> MapPut(st.prev, key, <<date, row.download_count>>),
         weekly |-> IF key \in DOMAIN st.prev
                    THEN MapAdd(st.weekly, get_week_start(st.prev[key][1]),
                                Delta(row.download_count, st.prev[key][2]))
                    ELSE st.weekly]

\* mutant: one previous snapshot for all keys
GithubStepOneSlot(st, row, date) ==
    [prev   |-> MapPut(st.prev, "any", <<date, row.download_count>>),
     weekly |-> IF "any" \in DOMAIN st.prev
                THEN MapAdd(st.weekly, get_week_start(date),
                            Delta(row.download_count, st.prev["any"][2]))
                ELSE st.weekly]

\* mutant: a key with no previous snapshot counts from zero
GithubStepSeeded(st, row, date) ==
    LET key == <<row.release_tag, row.asset_name>>
    IN  [prev   |-> MapPut(st.prev, key, <<date, row.download_count>>),
         weekly |-> MapAdd(st.weekly, get_week_start(date),
                           Delta(row.download_count,
                                 IF key \in DOMAIN st.prev
                                 THEN st.prev[key][2] ELSE 0))]

\* mutant: prev_snapshots keeps the first snapshot of a key
GithubStepFromFirst(st, row, date) ==
    LET key == <<row.release_tag, row.asset_name>>
    IN  [prev   |-> IF key \in DOMAIN st.prev THEN st.prev
                    ELSE MapPut(st.prev, key, <<date, row.download_count>>),
         weekly |-> IF key \in DOMAIN st.prev
                    THEN MapAdd(st.weekly, get_week_start(date),
                                Delta(row.download_count, st.prev[key][2]))
                    ELSE st.weekly]

\* one iteration of the loop body on a parsed row: st = [prev, weekly]
GithubStep(st, row, date) ==
    LET key == <<row.release_tag, row.asset_name>>
    IN  [prev   |-> MapPut(st.prev, key, <<date, row.download_count>>),
         weekly |-> IF key \in DOMAIN st.prev
                    THEN MapAdd(st.weekly, get_week_start(date),
                                Delta(row.download_count, st.prev[key][2]))
                    ELSE st.weekly]

\* download_count - prev_count leaves the i64 range
SubOverflows(download_count, prev_count) ==
    \/ download_count - prev_count > I64Max
    \/ download_count - prev_count < I64Min

\* the loop body on a parsed row overflows: the i64 subtraction, or the += of
\* the delta going over u64::MAX
GithubStepOverflows(st, row, date) ==
    LET key == <<row.release_tag, row.asset_name>>
    IN  /\ key \in DOMAIN st.prev
        /\ \/ SubOverflows(row.download_count, st.prev[key][2])
           \/ AddOverflows(st.weekly, get_week_start(date),
                           Delta(row.download_count, st.prev[key][2]))

RECURSIVE GithubScan(_, _, _)
\* the loop over the rows from row i on, with prev_snapshots and weekly_data in
\* st; overflow tells whether a += went over u64::MAX on the way
GithubScan(rows, i, st) ==
    IF i > Len(rows)
    THEN [ok |-> TRUE, weekly_data |-> st.weekly, overflow |-> FALSE]
    ELSE LET date == parse_from_str(rows[i].date)
         IN  IF date = Unparsed
             THEN [ok |-> FALSE, error |-> rows[i].date, overflow |-> FALSE]
             ELSE [GithubScan(rows, i + 1, GithubStep(st, rows[i], date))
                     EXCEPT !.overflow = @ \/ GithubStepOverflows(st, rows[i], date)]

GithubInit == [prev |-> EmptyMap, weekly |-> EmptyMap]

(***************************************************************************)
(* Inputs: the configuration, the clock and the two upstream APIs          *)
(***************************************************************************)
\* Config::default(): one GitHub source (the loop over github_sources runs
\* once) and the crates of crates_sources, in order
CratesSources == <<"cargo-nextest">>

\* Utc::now().date_naive() on the days a collection may run: 2025-11-10 (Mon),
\* 2025-11-19 (Wed of the next week), 2025-12-04 (Thu, two weeks later)
Days == {DaysFromCivil(2025, 11, 10), DaysFromCivil(2025, 11, 19),
         DaysFromCivil(2025, 12, 4)}

Tags == {"cargo-nextest-0.9.1", "v0.1.0"}
AssetNames == {"a.tar.gz", "b.zip"}
Counts == {1, 3}

RECURSIVE SeqsUpTo(_, _)
\* the sequences over S of length at most n
SeqsUpTo(S, n) ==
    IF n = 0 THEN {<<>>}
    ELSE LET shorter == SeqsUpTo(S, n - 1)
         IN  shorter \cup {Append(q, x) : q \in shorter, x \in S}

\* github::Asset, github::Release and a successful fetch_releases result
Assets == [name : AssetNames, download_count : Counts]
Releases == [tag_name : Tags, assets : SeqsUpTo(Assets, MaxAssets)]
FetchedReleases == SeqsUpTo(Releases, MaxReleases)
\* listings of up to MaxListing releases: a release under a cargo-nextest tag
\* and one under another tag, in either order (a tag names one release of a
\* repository)
FetchedListings ==
    FetchedReleases \cup
        {l \in SeqsUpTo(Releases, MaxListing) :
            /\ Len(l) = MaxListing
            /\ l[1].tag_name # l[2].tag_name
            /\ Len(l[1].assets) + Len(l[2].assets) <= MaxListingAssets}

\* date strings of a crates.io response: Mon 2025-11-17, Sun 2025-11-23,
\* Mon 2025-11-24, and one that is no calendar date
ApiDates == {<<2025, 11, 17>>, <<2025, 11, 23>>, <<2025, 11, 24>>, <<2025, 2, 30>>}
Downloads == {1, 2}
\* the downloads of one extra record of a fetched crates.io response
ExtraRecordDownloads == {2}
\* crates.io numeric version ids and their to_string()
VersionIds == {1}
VersionText(v) == IF v = 1 THEN "1" ELSE ""

\* crates_io::VersionDownload, ExtraDownload, DownloadsResponse, CrateInfo
VersionDownloads == [version : VersionIds, downloads : Downloads, date : ApiDates]
ExtraDownloads == [date : ApiDates, downloads : ExtraRecordDownloads]
DownloadsResponses ==
    [version_downloads : SeqsUpTo(VersionDownloads, MaxRecords),
     extra_downloads : SeqsUpTo(ExtraDownloads, MaxRecords)]
CrateInfos == {[downloads |-> 10, recent_downloads |-> 5]}

(***************************************************************************)
(* collect_github_stats and collect_crates_stats on a fetched response     *)
(***************************************************************************)
\* the arguments of one db::insert_github_snapshot call for asset j of a release
AssetCall(release, j) ==
    [release_tag |-> release.tag_name, asset_name |-> release.assets[j].name,
     download_count |-> release.assets[j].download_count]

RECURSIVE AssetCallsUnfiltered(_, _)
\* mutant: every release's assets are recorded, whatever its tag
AssetCallsUnfiltered(releases, i) ==
    IF i > Len(releases) THEN <<>>
    ELSE [j \in 1..Len(releases[i].assets) |-> AssetCall(releases[i], j)]
            \o AssetCallsUnfiltered(releases, i + 1)

RECURSIVE AssetCalls(_, _)
\* the insert calls the two loops of collect_github_stats make, in order, for
\* the releases from release i on: a release whose tag does not start with
\* "cargo-nextest-" is skipped
AssetCalls(releases, i) ==
    IF i > Len(releases) THEN <<>>
    ELSE (IF StartsWithCargoNextest(releases[i].tag_name)
          THEN [j \in 1..Len(releases[i].assets) |-> AssetCall(releases[i], j)]
          ELSE <<>>)
            \o AssetCalls(releases, i + 1)

RECURSIVE InsertSnapshots(_, _, _, _)
\* the table after the insert calls from call i on
InsertSnapshots(tbl, today, calls, i) ==
    IF i > Len(calls) THEN tbl
    ELSE InsertSnapshots(
            insert_github_snapshot(tbl, today, calls[i].release_tag,
                                   calls[i].asset_name, calls[i].download_count),
            today, calls, i + 1)

\* github_snapshots after the loops of collect_github_stats have run to the end
InsertReleases(tbl, today, releases, i) ==
    InsertSnapshots(tbl, today, AssetCalls(releases, i), 1)

\* crates_io::parse_date
parse_date(s) == parse_from_str(s)

\* the records the two loops of collect_crates_stats visit, in order: the
\* version_downloads with vd.version.to_string(), then the extra_downloads
\* with no version ("" in the table)
DownloadCalls(resp) ==
    [i \in 1..Len(resp.version_downloads) |->
        [date |-> resp.version_downloads[i].date,
         version |-> VersionText(resp.version_downloads[i].version),
         downloads |-> resp.version_downloads[i].downloads]]
    \o [i \in 1..Len(resp.extra_downloads) |->
        [date |-> resp.extra_downloads[i].date, version |-> "",
         downloads |-> resp.extra_downloads[i].downloads]]

RECURSIVE InsertDownloads(_, _, _, _)
\* the two loops run from record i on: [ok, tbl, error]; a date that does not
\* parse returns Err naming it, with the rows inserted so far kept
InsertDownloads(tbl, crate_name, calls, i) ==
    IF i > Len(calls) THEN [ok |-> TRUE, tbl |-> tbl, error |-> <<>>]
    ELSE LET date == parse_date(calls[i].date)
         IN  IF date = Unparsed
             THEN [ok |-> FALSE, tbl |-> tbl, error |-> calls[i].date]
             ELSE InsertDownloads(
                     insert_crates_download(tbl, date, crate_name,
                                            calls[i].version, calls[i].downloads),
                     crate_name, calls, i + 1)

\* crates_downloads after collect_crates_stats has run to the end on a
\* fetched response: [ok, tbl, error]
InsertResponse(tbl, crate_name, resp) ==
    InsertDownloads(tbl, crate_name, DownloadCalls(resp), 1)

(***************************************************************************)
(* The running command                                                     *)
(***************************************************************************)
VARIABLES
    pc,           \* position of the process: "idle" when no command runs
    stages,       \* the stages of run_collect still to run after the current
                  \* one (the skip flags decide them when the command starts)
    today,        \* the latest Utc::now().date_naive() read
    idx,          \* position of the loop over crates_sources
    weekly_data,  \* the HashMap of the running compute_*_weekly
    todo,         \* its keys not yet visited by the insert loop
    result,       \* how the latest command ended
    \* history of the aggregation runs, read only by the properties
    pre,          \* weekly_stats when the current or latest run started
    base,         \* weekly_stats when the first run of a chain of runs that
                  \* follow a crashed run on an unchanged raw store started
    prior,        \* how the run before the current or latest one ended ("ok"
                  \* or "crashed"), "none" when there was none, it returned
                  \* Err, or the raw store changed in between
    ended,        \* how the latest run ended ("ok" or "crashed"), "none" when
                  \* it returned Err and once the raw store changed
    last_put,     \* per key, the downloads of the latest insert_weekly_stat call
    week_calls,   \* a date, then the results of get_week_start called on it
                  \* and on each result in turn (<<>>: not called)
    last_raw,     \* for the insert_github_snapshot and insert_crates_download
                  \* calls made one at a time: per table and key, the count of
                  \* the latest call and whether a call replaced another count
    github_releases,  \* the releases collect_github_stats has fetched (its
                  \* local releases) while it has inserts to make for them
    pending,      \* the insert calls the running collector has still to make
                  \* for the response it has fetched, in order
    total_downloads,  \* the u64 sum collect_github_stats keeps of the counts
                  \* it has stored
    wal,          \* the write-ahead log of the database file: the parts
                  \* of the database whose pages are in the log and not yet
                  \* in the file; empty once the last connection was closed
                  \* (the log is copied into the file and removed)
    runs,         \* two compute_all_weekly runs over one database file, each
                  \* with its position, its weekly_data and the keys it has
                  \* still to insert
    fetch,        \* a call of github::fetch_releases on its own: its page
                  \* counter, its all_releases, the responses it has got and
                  \* what it returned
    database      \* what the file at --database holds: "sqlite" for the
                  \* tables above, "text" once an export has been written
                  \* over it (the tables are gone)

raw == <<github_snapshots, crates_downloads, crates_metadata>>
vars == <<github_snapshots, crates_downloads, crates_metadata, weekly_stats,
          pc, stages, today, idx, weekly_data, todo, result,
          pre, base, prior, ended, last_put, week_calls, last_raw,
          database, fetch, runs, pending, github_releases, total_downloads, wal>>

NoDate == <<>>
\* no concurrent aggregation runs are followed
NoRuns == <<>>
\* no call of fetch_releases is followed
NoFetch == [status |-> "none", page |-> 0, all_releases |-> <<>>,
            received |-> <<>>, returned |-> <<>>]
Ok == [status |-> "ok", context |-> "", date |-> NoDate]
Running == [status |-> "running", context |-> "", date |-> NoDate]
Crashed == [status |-> "crashed", context |-> "", date |-> NoDate]

\* the parts of the database file: the schema page and the four tables
\* init_db creates, each with its indexes. A table of the size this model
\* keeps is one page; a log of more than 1000 pages, which SQLite
\* checkpoints on its own, is out of its reach.
Pages == {"schema", "github_snapshots", "crates_downloads", "crates_metadata",
          "weekly_stats"}
Killed == [status |-> "killed", context |-> "", date |-> NoDate]
Panicked == [status |-> "panicked", context |-> "", date |-> NoDate]
\* mutant: the error is returned without .context(...)
ErrBare(context, date) == [status |-> "err", context |-> "", date |-> date]

Err(context, date) == [status |-> "err", context |-> context, date |-> date]

\* a fresh database file after init_db, no command run yet
Init ==
    /\ github_snapshots = {}
    /\ crates_downloads = {}
    /\ crates_metadata = {}
    /\ weekly_stats = {}
    /\ pc = "idle"
    /\ stages = <<>>
    /\ today = DaysFromCivil(2025, 11, 10)
    /\ idx = 0
    /\ weekly_data = EmptyMap
    /\ todo = {}
    /\ result = [status |-> "none", context |-> "", date |-> NoDate]
    /\ pre = {}
    /\ base = {}
    /\ prior = "none"
    /\ ended = "none"
    /\ last_put = EmptyMap
    /\ week_calls = <<>>
    /\ last_raw = EmptyMap
    /\ database = "sqlite"
    /\ fetch = NoFetch
    /\ runs = NoRuns
    /\ pending = <<>>
    /\ github_releases = <<>>
    /\ total_downloads = 0
    /\ wal = Pages

\* the log after a statement of the running process has written to a
\* table: its pages are in the log until the next checkpoint
Logged(table) == wal \cup {table}

\* the process exits with the log as given: its memory is gone, the database
\* file stays
ExitWith(res, log) ==
    /\ pc' = "idle"
    /\ stages' = <<>>
    /\ idx' = 0
    /\ weekly_data' = EmptyMap
    /\ todo' = {}
    /\ result' = res
    /\ wal' = log

\* A process that returns or panics (the stack unwinds) drops its
\* Connection, which closes the database and checkpoints the log; a killed
\* process leaves the log as its last statement left it.
ExitLogged(res, log) ==
    ExitWith(res, IF res.status \in {"crashed", "killed"} THEN log ELSE {})

Exit(res) == ExitLogged(res, wal)

\* run_collect enters the stage at the head of rest
Enter(rest) ==
    /\ pc' = Head(rest)
    /\ stages' = Tail(rest)
    /\ idx' = IF Head(rest) = "collect_crates" THEN 1 ELSE 0
    /\ weekly_data' = EmptyMap
    /\ todo' = {}
    /\ result' = Running

\* run_collect goes on with the stages in rest, and returns Ok after the last
Goto(rest) ==
    IF rest = <<>> THEN Exit(Ok)
    ELSE Enter(rest) /\ wal' = wal

\* a step that may have changed the raw store
Touch ==
    /\ ended' = IF raw' = raw THEN ended ELSE "none"
    /\ base' = IF raw' = raw THEN base ELSE {}

(***************************************************************************)
(* run_collect                                                             *)
(***************************************************************************)
\* mutant: the aggregation block is not guarded by its flag
StagesAlwaysAggregating(skip_github, skip_crates, skip_aggregation) ==
    (IF skip_github THEN <<>> ELSE <<"collect_github">>)
        \o (IF skip_crates THEN <<>> ELSE <<"collect_crates">>)
        \o <<"crates_scan">>

\* the stages the three if !skip_* blocks of run_collect run, in order
Stages(skip_github, skip_crates, skip_aggregation) ==
    (IF skip_github THEN <<>> ELSE <<"collect_github">>)
        \o (IF skip_crates THEN <<>> ELSE <<"collect_crates">>)
        \o (IF skip_aggregation THEN <<>> ELSE <<"crates_scan">>)

\* the collect command starts: init_db (CREATE TABLE IF NOT EXISTS changes
\* nothing; a file that is no SQLite database returns Err) and
\* today = Utc::now().date_naive()
RunCollect(skip_github, skip_crates, skip_aggregation, now) ==
    /\ pc = "idle"
    /\ now >= today
    /\ today' = now
    /\ IF database = "sqlite"
       THEN Goto(Stages(skip_github, skip_crates, skip_aggregation))
       ELSE Exit(Err("failed to initialize database", NoDate))
    /\ pre' = {}
    /\ prior' = "none"
    /\ base' = IF ended = "crashed" THEN base ELSE {}
    /\ UNCHANGED <<github_snapshots, crates_downloads, crates_metadata,
                   weekly_stats, ended, last_put>>
    /\ UNCHANGED <<week_calls, last_raw, database, fetch, runs, pending,
                   github_releases, total_downloads>>

\* collect_github_stats: fetch_releases returns Ok(releases); the insert
\* calls for them are still to make
CollectGithub(releases) ==
    /\ pc = "collect_github"
    /\ Cardinality(InsertReleases(github_snapshots, today, releases, 1))
          + Cardinality(crates_downloads) <= MaxRows
    /\ pc' = "insert_github"
    /\ pending' = AssetCalls(releases, 1)
    /\ github_releases' = IF pending' = <<>> THEN <<>> ELSE releases
    /\ UNCHANGED <<stages, idx, weekly_data, todo, result, wal>>
    /\ UNCHANGED <<github_snapshots, crates_downloads, crates_metadata,
                   weekly_stats, today, pre, base, prior, ended, last_put>>
    /\ UNCHANGED <<week_calls, last_raw, database, fetch, runs,
                   total_downloads>>

\* one iteration of the inner loop of collect_github_stats: one autocommitted
\* db::insert_github_snapshot, then total_downloads += asset.download_count.
\* When the sum passes u64::MAX the row is stored and the addition is still
\* to be made: what it does depends on the build
InsertGithubAsset ==
    /\ pc = "insert_github"
    /\ pending # <<>>
    /\ github_snapshots' =
          insert_github_snapshot(github_snapshots, today,
                                 Head(pending).release_tag,
                                 Head(pending).asset_name,
                                 Head(pending).download_count)
    /\ wal' = Logged("github_snapshots")
    /\ IF total_downloads + Head(pending).download_count >= U64Modulus
       THEN /\ pc' = "add_overflows"
            /\ UNCHANGED <<pending, total_downloads>>
       ELSE /\ pending' = Tail(pending)
            /\ total_downloads' = total_downloads + Head(pending).download_count
            /\ UNCHANGED pc
    /\ github_releases' = IF pending' = <<>> THEN <<>> ELSE github_releases
    /\ UNCHANGED <<stages, idx, weekly_data, todo, result>>
    /\ UNCHANGED <<crates_downloads, crates_metadata, weekly_stats, today,
                   pre, prior, last_put>>
    /\ Touch
    /\ UNCHANGED <<week_calls, last_raw, database, fetch, runs>>

\* total_downloads += asset.download_count passes u64::MAX in a build
\* without overflow checks: the sum wraps and the loop goes on
CollectGithubWrap ==
    /\ pc = "add_overflows"
    /\ pc' = "insert_github"
    /\ pending' = Tail(pending)
    /\ total_downloads' =
          (total_downloads + Head(pending).download_count) % U64Modulus
    /\ github_releases' = IF pending' = <<>> THEN <<>> ELSE github_releases
    /\ UNCHANGED <<stages, idx, weekly_data, todo, result, wal>>
    /\ UNCHANGED <<github_snapshots, crates_downloads, crates_metadata,
                   weekly_stats, today, pre, base, prior, ended, last_put>>
    /\ UNCHANGED <<week_calls, last_raw, database, fetch, runs>>

\* the same addition in a build with overflow checks: "attempt to add with
\* overflow", after the row was stored
CollectGithubPanic ==
    /\ pc = "add_overflows"
    /\ Exit(Panicked)
    /\ pending' = <<>>
    /\ github_releases' = <<>>
    /\ total_downloads' = 0
    /\ UNCHANGED <<github_snapshots, crates_downloads, crates_metadata,
                   weekly_stats, today, pre, base, prior, ended, last_put>>
    /\ UNCHANGED <<week_calls, last_raw, database, fetch, runs>>

\* the loops of collect_github_stats are over: it returns Ok and run_collect
\* goes on
CollectGithubReturn ==
    /\ pc = "insert_github"
    /\ pending = <<>>
    /\ Goto(stages)
    /\ total_downloads' = 0
    /\ UNCHANGED <<pending, github_releases>>
    /\ UNCHANGED <<github_snapshots, crates_downloads, crates_metadata,
                   weekly_stats, today, pre, base, prior, ended, last_put>>
    /\ UNCHANGED <<week_calls, last_raw, database, fetch, runs>>

\* mutant: the failure is printed and run_collect goes on with the next stage
CollectGithubFailLogged ==
    /\ pc = "collect_github"
    /\ Goto(stages)
    /\ UNCHANGED <<github_snapshots, crates_downloads, crates_metadata,
                   weekly_stats, today, pre, base, prior, ended, last_put>>
    /\ UNCHANGED <<week_calls, last_raw, database, fetch, runs, pending,
                   github_releases, total_downloads>>

\* collect_github_stats with fetch_releases returning Err: run_collect returns it
CollectGithubFail ==
    /\ pc = "collect_github"
    /\ Exit(Err("failed to fetch GitHub releases", NoDate))
    /\ UNCHANGED <<github_snapshots, crates_downloads, crates_metadata,
                   weekly_stats, today, pre, base, prior, ended, last_put>>
    /\ UNCHANGED <<week_calls, last_raw, database, fetch, runs, pending,
                   github_releases, total_downloads>>

\* collect_crates_stats for CratesSources[idx]: fetch_crate_metadata returns
\* Ok(info); now is the function's own Utc::now().date_naive(); the metadata
\* row is stored and fetch_downloads is awaited
CollectCratesMetadata(info, now) ==
    /\ pc = "collect_crates"
    /\ now >= today
    /\ today' = now
    /\ crates_metadata' = insert_crates_metadata(crates_metadata, now,
                             CratesSources[idx], info.downloads,
                             info.recent_downloads)
    /\ Cardinality(crates_metadata') <= MaxMetadata
    /\ pc' = "fetch_downloads"
    /\ wal' = Logged("crates_metadata")
    /\ UNCHANGED <<github_snapshots, crates_downloads, weekly_stats, stages,
                   idx, weekly_data, todo, result, pre, prior, last_put>>
    /\ Touch
    /\ UNCHANGED <<week_calls, last_raw, database, fetch, runs, pending,
                   github_releases, total_downloads>>

\* collect_crates_stats with fetch_crate_metadata returning Err
CollectCratesMetadataFail ==
    /\ pc = "collect_crates"
    /\ Exit(Err("failed to fetch metadata", NoDate))
    /\ UNCHANGED <<github_snapshots, crates_downloads, crates_metadata,
                   weekly_stats, today, pre, base, prior, ended, last_put>>
    /\ UNCHANGED <<week_calls, last_raw, database, fetch, runs, pending,
                   github_releases, total_downloads>>

\* fetch_downloads returns Ok(resp); the insert calls for its records are
\* still to make
CollectCratesDownloads(resp) ==
    /\ pc = "fetch_downloads"
    /\ Cardinality(github_snapshots)
          + Cardinality(InsertResponse(crates_downloads, CratesSources[idx],
                                       resp).tbl) <= MaxRows
    /\ pc' = "insert_crates"
    /\ pending' = DownloadCalls(resp)
    /\ UNCHANGED <<stages, idx, weekly_data, todo, result, wal>>
    /\ UNCHANGED <<github_snapshots, crates_downloads, crates_metadata,
                   weekly_stats, today, pre, base, prior, ended, last_put>>
    /\ UNCHANGED <<week_calls, last_raw, database, fetch, runs,
                   github_releases, total_downloads>>

\* fetch_downloads returns Err, after the metadata row was stored
CollectCratesDownloadsFail ==
    /\ pc = "fetch_downloads"
    /\ Exit(Err("failed to fetch downloads", NoDate))
    /\ UNCHANGED <<github_snapshots, crates_downloads, crates_metadata,
                   weekly_stats, today, pre, base, prior, ended, last_put>>
    /\ UNCHANGED <<week_calls, last_raw, database, fetch, runs, pending,
                   github_releases, total_downloads>>

\* one iteration of a loop of collect_crates_stats: parse_date, which returns
\* Err at a date that does not parse, then one autocommitted
\* db::insert_crates_download
InsertCratesDownloadRecord ==
    /\ pc = "insert_crates"
    /\ pending # <<>>
    /\ LET date == parse_date(Head(pending).date)
       IN  IF date = Unparsed
           THEN /\ Exit(Err("failed to parse date", Head(pending).date))
                /\ pending' = <<>>
                /\ UNCHANGED crates_downloads
           ELSE /\ crates_downloads' =
                      insert_crates_download(crates_downloads, date,
                                             CratesSources[idx],
                                             Head(pending).version,
                                             Head(pending).downloads)
                /\ pending' = Tail(pending)
                /\ wal' = Logged("crates_downloads")
                /\ UNCHANGED <<pc, stages, idx, weekly_data, todo, result>>
    /\ UNCHANGED <<github_snapshots, crates_metadata, weekly_stats, today,
                   pre, prior, last_put>>
    /\ Touch
    /\ UNCHANGED <<week_calls, last_raw, database, fetch, runs,
                   github_releases, total_downloads>>

\* the loops of collect_crates_stats are over: it returns Ok, and the loop
\* of run_collect over crates_sources goes on
CollectCratesReturn ==
    /\ pc = "insert_crates"
    /\ pending = <<>>
    /\ IF idx = Len(CratesSources) THEN Goto(stages)
       ELSE /\ pc' = "collect_crates"
            /\ idx' = idx + 1
            /\ UNCHANGED <<stages, weekly_data, todo, result, wal>>
    /\ UNCHANGED <<github_snapshots, crates_downloads, crates_metadata,
                   weekly_stats, today, pre, base, prior, ended, last_put>>
    /\ UNCHANGED <<week_calls, last_raw, database, fetch, runs, pending,
                   github_releases, total_downloads>>

\* the process is killed while it collects: at an await, between two
\* inserts, after the last insert and before the Connection is dropped, or
\* before the aggregation has read anything. Every insert already executed
\* is committed (autocommit), nothing is returned
Kill ==
    /\ pc \in {"collect_github", "insert_github", "add_overflows",
               "collect_crates", "fetch_downloads", "insert_crates",
               "crates_scan"}
    /\ Exit(Killed)
    /\ pending' = <<>>
    /\ github_releases' = <<>>
    /\ total_downloads' = 0
    /\ UNCHANGED <<github_snapshots, crates_downloads, crates_metadata,
                   weekly_stats, today, pre, base, prior, ended, last_put>>
    /\ UNCHANGED <<week_calls, last_raw, database, fetch, runs>>

(***************************************************************************)
(* compute_all_weekly                                                      *)
(***************************************************************************)
\* one db::insert_weekly_stat call of an insert loop
PutWeekly(week_start, source, identifier, downloads) ==
    /\ weekly_stats' = insert_weekly_stat(weekly_stats, week_start, source,
                                          identifier, downloads)
    /\ last_put' = MapPut(last_put, <<to_string(week_start), source, identifier>>,
                          downloads)
    /\ wal' = Logged("weekly_stats")

\* compute_all_weekly starts: compute_crates_weekly runs its query and its
\* grouping loop, and returns Err at a date that does not parse
CratesScanStep ==
    /\ pc = "crates_scan"
    /\ pre' = weekly_stats
    /\ prior' = ended
    /\ base' = IF ended = "crashed" THEN base ELSE weekly_stats
    /\ LET r == CratesScan(CratesQuery(crates_downloads), 1, EmptyMap)
       IN  IF r.ok
           THEN /\ weekly_data' = r.weekly_data
                /\ todo' = DOMAIN r.weekly_data
                /\ pc' = "crates_write"
                /\ UNCHANGED <<stages, idx, result, ended, wal>>
           ELSE /\ Exit(Err("failed to compute crates.io weekly aggregates",
                            r.error))
                /\ ended' = "none"
    /\ UNCHANGED <<github_snapshots, crates_downloads, crates_metadata,
                   weekly_stats, today, last_put>>
    /\ UNCHANGED <<week_calls, last_raw, database, fetch, runs, pending,
                   github_releases, total_downloads>>

\* mutant: the insert loop also deletes the daily rows it has summed
CratesInsertMoving(k) ==
    /\ pc = "crates_write"
    /\ k \in todo
    /\ PutWeekly(k[1], "crates", k[2], weekly_data[k])
    /\ todo' = todo \ {k}
    /\ crates_downloads' =
          {r \in crates_downloads :
              ~(/\ r.crate_name = k[2]
                /\ get_week_start(parse_from_str(r.date)) = k[1])}
    /\ UNCHANGED <<github_snapshots, crates_metadata, pc, stages, today, idx,
                   weekly_data, result, pre, base, prior, ended>>
    /\ UNCHANGED <<week_calls, last_raw, database, fetch, runs, pending,
                   github_releases, total_downloads>>

\* one iteration of compute_crates_weekly's insert loop; a HashMap is visited
\* in no particular order
CratesInsert(k) ==
    /\ pc = "crates_write"
    /\ k \in todo
    /\ PutWeekly(k[1], "crates", k[2], weekly_data[k])
    /\ todo' = todo \ {k}
    /\ UNCHANGED <<github_snapshots, crates_downloads, crates_metadata, pc,
                   stages, today, idx, weekly_data, result, pre, base, prior,
                   ended>>
    /\ UNCHANGED <<week_calls, last_raw, database, fetch, runs, pending,
                   github_releases, total_downloads>>

\* compute_crates_weekly returns Ok; compute_github_weekly runs its query and
\* its delta loop, and returns Err at a date that does not parse
GithubScanStep ==
    /\ pc = "crates_write"
    /\ todo = {}
    /\ LET r == GithubScan(GithubQuery(github_snapshots), 1, GithubInit)
       IN  IF r.ok
           THEN /\ weekly_data' = r.weekly_data
                /\ todo' = DOMAIN r.weekly_data
                /\ pc' = "github_write"
                /\ UNCHANGED <<stages, idx, result, ended, wal>>
           ELSE /\ Exit(Err("failed to compute GitHub weekly aggregates",
                            r.error))
                /\ ended' = "none"
    /\ UNCHANGED <<github_snapshots, crates_downloads, crates_metadata,
                   weekly_stats, today, pre, base, prior, last_put>>
    /\ UNCHANGED <<week_calls, last_raw, database, fetch, runs, pending,
                   github_releases, total_downloads>>

\* one iteration of compute_github_weekly's insert loop
GithubInsert(w) ==
    /\ pc = "github_write"
    /\ w \in todo
    /\ PutWeekly(w, "github", "releases", weekly_data[w])
    /\ todo' = todo \ {w}
    /\ UNCHANGED <<github_snapshots, crates_downloads, crates_metadata, pc,
                   stages, today, idx, weekly_data, result, pre, base, prior,
                   ended>>
    /\ UNCHANGED <<week_calls, last_raw, database, fetch, runs, pending,
                   github_releases, total_downloads>>

\* compute_github_weekly, compute_all_weekly and run_collect return Ok
Return ==
    /\ pc = "github_write"
    /\ todo = {}
    /\ Goto(stages)
    /\ ended' = "ok"
    /\ UNCHANGED <<github_snapshots, crates_downloads, crates_metadata,
                   weekly_stats, today, pre, base, prior, last_put>>
    /\ UNCHANGED <<week_calls, last_raw, database, fetch, runs, pending,
                   github_releases, total_downloads>>

\* the process is killed between two statements of an aggregation run: every
\* upsert already executed is committed (autocommit), the rest never happens
Crash ==
    /\ pc \in {"crates_write", "github_write"}
    /\ Exit(Crashed)
    /\ ended' = "crashed"
    /\ UNCHANGED <<github_snapshots, crates_downloads, crates_metadata,
                   weekly_stats, today, pre, base, prior, last_put>>
    /\ UNCHANGED <<week_calls, last_raw, database, fetch, runs, pending,
                   github_releases, total_downloads>>

\* the grouping loop of compute_crates_weekly adds past u64::MAX in a build
\* with overflow checks: "attempt to add with overflow", the process aborts
\* before the stage writes anything (a build without them wraps and goes on
\* as CratesScanStep)
CratesScanPanic ==
    /\ pc = "crates_scan"
    /\ CratesScan(CratesQuery(crates_downloads), 1, EmptyMap).overflow
    /\ Exit(Panicked)
    /\ pre' = weekly_stats
    /\ prior' = ended
    /\ base' = {}
    /\ ended' = "none"
    /\ UNCHANGED <<github_snapshots, crates_downloads, crates_metadata,
                   weekly_stats, today, last_put>>
    /\ UNCHANGED <<week_calls, last_raw, database, fetch, runs, pending,
                   github_releases, total_downloads>>

\* the same in the delta loop of compute_github_weekly, for its subtraction
\* and its +=
GithubScanPanic ==
    /\ pc = "crates_write"
    /\ todo = {}
    /\ GithubScan(GithubQuery(github_snapshots), 1, GithubInit).overflow
    /\ Exit(Panicked)
    /\ base' = {}
    /\ ended' = "none"
    /\ UNCHANGED <<github_snapshots, crates_downloads, crates_metadata,
                   weekly_stats, today, pre, prior, last_put>>
    /\ UNCHANGED <<week_calls, last_raw, database, fetch, runs, pending,
                   github_releases, total_downloads>>

Next ==
    \/ \E sg \in BOOLEAN, sc \in BOOLEAN, sa \in BOOLEAN, now \in Days :
          RunCollect(sg, sc, sa, now)
    \/ \E releases \in FetchedReleases : CollectGithub(releases)
    \/ InsertGithubAsset
    \/ CollectGithubReturn
    \/ CollectGithubFail
    \/ \E info \in CrateInfos, now \in Days : CollectCratesMetadata(info, now)
    \/ CollectCratesMetadataFail
    \/ \E resp \in DownloadsResponses : CollectCratesDownloads(resp)
    \/ CollectCratesDownloadsFail
    \/ InsertCratesDownloadRecord
    \/ CollectCratesReturn
    \/ Kill
    \/ CratesScanStep
    \/ \E k \in todo : CratesInsert(k)
    \/ GithubScanStep
    \/ \E w \in todo : GithubInsert(w)
    \/ Return
    \/ Crash

Spec == Init /\ [][Next]_vars

(***************************************************************************)
(* The query and export commands                                           *)
(***************************************************************************)
\* --database, by its default value
DatabasePath == "download-stats.db"
\* --output: some other file, or the file --database names
OutputPaths == {"weekly.out", DatabasePath}
QueryKinds == {"weekly", "total", "latest"}
QuerySources == {"github", "crates", "all", "npm"}
ExportFormats == {"csv", "json"}
ExportTables == {"weekly", "daily", "github", "all"}

\* the weekly rows a query with this --source reads: "github", "crates", and
\* every row for "all" and for any other word
QueryRows(source) ==
    IF source \in {"github", "crates"}
    THEN {w \in weekly_stats : w.source = source}
    ELSE weekly_stats

\* run_query: query_weekly prints what it finds; query_total reads SUM() into
\* an i64, which fails on the NULL of an empty set; query_latest needs a crates
\* week, a GitHub snapshot and a weekly row
QueryResult(kind, source) ==
    IF kind = "weekly" THEN Ok
    ELSE IF kind = "total"
    THEN IF QueryRows(source) = {} THEN Err("", NoDate) ELSE Ok
    ELSE IF QueryRows("crates") = {} \/ github_snapshots = {}
    THEN Err("", NoDate) ELSE Ok

\* the query command: init_db, then run_query; nothing is written
RunQuery(kind, source) ==
    /\ pc = "idle"
    /\ Exit(IF database = "sqlite" THEN QueryResult(kind, source)
            ELSE Err("failed to open database", NoDate))
    /\ UNCHANGED <<github_snapshots, crates_downloads, crates_metadata,
                   weekly_stats, today, pre, base, prior, ended, last_put>>
    /\ UNCHANGED <<week_calls, last_raw, database, fetch, runs, pending,
                   github_releases, total_downloads>>

\* the table of the database an export of this --table reads
ExportedTable(table) ==
    IF table = "weekly" THEN "weekly_stats"
    ELSE IF table = "daily" THEN "crates_downloads"
    ELSE "github_snapshots"

\* how an export that has created its output file ends: export_json has read
\* every row before File::create and returns Ok; export_csv reads the rows
\* after it. On the file it has just truncated it still finds a table whose
\* pages are in the write-ahead log; for any other table the read is an
\* error of SQLite or a fault of the memory map that kills the process
ExportEnds(format, table, output) ==
    IF output # DatabasePath \/ format = "json" THEN {Ok}
    ELSE IF ExportedTable(table) \in wal THEN {Ok}
    ELSE {Err("", NoDate), Crashed}

\* the export command: init_db, then run_export. A table other than "weekly",
\* "daily" and "github" bails before the output file is created. File::create
\* truncates the file at --output. When that is the file at --database and
\* the log holds every page of the database (no process has closed it
\* cleanly yet), closing the connection copies the log over the exported
\* text and the file is the database again; otherwise the tables are gone
\* and the file is no database.
RunExport(format, table, output) ==
    /\ pc = "idle"
    /\ IF database # "sqlite"
       THEN /\ Exit(Err("failed to open database", NoDate))
            /\ UNCHANGED <<github_snapshots, crates_downloads, crates_metadata,
                           weekly_stats, database, base, ended>>
       ELSE IF table \notin {"weekly", "daily", "github"}
       THEN /\ Exit(Err("Unknown table type", NoDate))
            /\ UNCHANGED <<github_snapshots, crates_downloads, crates_metadata,
                           weekly_stats, database, base, ended>>
       ELSE IF output # DatabasePath \/ wal = Pages
       THEN /\ \E res \in ExportEnds(format, table, output) : Exit(res)
            /\ UNCHANGED <<github_snapshots, crates_downloads, crates_metadata,
                           weekly_stats, database, base, ended>>
       ELSE /\ \E res \in ExportEnds(format, table, output) : ExitWith(res, {})
            /\ github_snapshots' = {}
            /\ crates_downloads' = {}
            /\ crates_metadata' = {}
            /\ weekly_stats' = {}
            /\ database' = "text"
            /\ base' = {}
            /\ ended' = "none"
    /\ UNCHANGED <<today, pre, prior, last_put, week_calls, last_raw, fetch,
                   runs, pending, github_releases, total_downloads>>

\* the charts command: run_charts opens the database with init_db and
\* generate_all_charts reads weekly_stats and github_snapshots and draws
\* into the output directory. Nothing is written to the database; whether
\* the drawing succeeds is not followed here.
RunCharts ==
    /\ pc = "idle"
    /\ IF database = "sqlite"
       THEN \E res \in {Ok, Err("", NoDate)} : Exit(res)
       ELSE Exit(Err("failed to open database", NoDate))
    /\ UNCHANGED <<github_snapshots, crates_downloads, crates_metadata,
                   weekly_stats, today, pre, base, prior, ended, last_put>>
    /\ UNCHANGED <<week_calls, last_raw, database, fetch, runs, pending,
                   github_releases, total_downloads>>

NextCommands ==
    \/ Next
    \/ RunCharts
    \/ \E kind \in QueryKinds, source \in QuerySources : RunQuery(kind, source)
    \/ \E format \in ExportFormats, table \in ExportTables, output \in OutputPaths :
          RunExport(format, table, output)

SpecCommands == Init /\ [][NextCommands]_vars

(***************************************************************************)
(* compute_all_weekly on a stored database file                            *)
(*                                                                         *)
(* The command opens whatever file --database names. Its raw tables hold   *)
(* rows collected earlier, under any configuration; a date column is TEXT  *)
(* with no constraint, so a stored date need not be a calendar date.       *)
(***************************************************************************)
RECURSIVE SubsetsUpTo(_, _)
\* the subsets of S with at most n elements
SubsetsUpTo(S, n) ==
    IF n = 0 THEN {{}}
    ELSE LET smaller == SubsetsUpTo(S, n - 1)
         IN  smaller \cup {t \cup {x} : t \in smaller, x \in S}

CrateNames == {"cargo-nextest", "nextest-runner"}
StoredGithubDates == {to_string(d) : d \in Days} \cup {<<2025, 2, 30>>}
StoredGithubRows ==
    [date : StoredGithubDates, release_tag : {"cargo-nextest-0.9.1"},
     asset_name : AssetNames, download_count : Counts]
StoredCratesRows ==
    [date : ApiDates, crate_name : CrateNames, version : {"", "1"},
     downloads : Downloads]

\* PRIMARY KEY (date, release_tag, asset_name)
GithubKeyUnique(tbl) ==
    \A a \in tbl, b \in tbl :
        (a.date = b.date /\ a.release_tag = b.release_tag
            /\ a.asset_name = b.asset_name) => a = b

\* PRIMARY KEY (date, crate_name, version)
CratesKeyUnique(tbl) ==
    \A a \in tbl, b \in tbl :
        (a.date = b.date /\ a.crate_name = b.crate_name
            /\ a.version = b.version) => a = b

\* weekly rows left by earlier runs over an earlier raw store
StoredWeeklyTables ==
    {{}}
      \cup {{[week_start |-> <<2025, 11, 17>>, source |-> "crates",
               identifier |-> "cargo-nextest", downloads |-> 9]}}
      \cup {{[week_start |-> <<2025, 11, 17>>, source |-> "github",
               identifier |-> "releases", downloads |-> 9]}}

StoredGithubTables(n) ==
    {t \in SubsetsUpTo(StoredGithubRows, n) : GithubKeyUnique(t)}
StoredCratesTables(n) ==
    {t \in SubsetsUpTo(StoredCratesRows, n) : CratesKeyUnique(t)}

\* collect --skip-github --skip-crates on a stored database, at the call of
\* compute_all_weekly
InitStored ==
    /\ github_snapshots \in StoredGithubTables(MaxStored)
    /\ crates_downloads
          \in StoredCratesTables(MaxStored - Cardinality(github_snapshots))
    /\ crates_metadata = {}
    /\ weekly_stats \in StoredWeeklyTables
    /\ pc = "crates_scan"
    /\ stages = <<>>
    /\ today = DaysFromCivil(2025, 12, 4)
    /\ idx = 0
    /\ weekly_data = EmptyMap
    /\ todo = {}
    /\ result = Running
    /\ pre = {}
    /\ base = {}
    /\ prior = "none"
    /\ ended = "none"
    /\ last_put = EmptyMap
    /\ week_calls = <<>>
    /\ last_raw = EmptyMap
    /\ database = "sqlite"
    /\ fetch = NoFetch
    /\ runs = NoRuns
    /\ pending = <<>>
    /\ github_releases = <<>>
    /\ total_downloads = 0
    /\ wal = {}

NextStored ==
    \/ CratesScanStep
    \/ \E k \in todo : CratesInsert(k)
    \/ GithubScanStep
    \/ \E w \in todo : GithubInsert(w)
    \/ Return

SpecStored == InitStored /\ [][NextStored]_vars

(***************************************************************************)
(* get_week_start on its own                                               *)
(***************************************************************************)
\* two windows of dates: the first days of chrono's range, and February to
\* March of the leap year 2024
WeekDates ==
    (MinDate .. MinDate + MaxDateSpan)
        \cup (DaysFromCivil(2024, 2, 1) .. DaysFromCivil(2024, 2, 1) + MaxDateSpan)

InitWeek ==
    /\ github_snapshots = {}
    /\ crates_downloads = {}
    /\ crates_metadata = {}
    /\ weekly_stats = {}
    /\ pc = "idle"
    /\ stages = <<>>
    /\ today = DaysFromCivil(2025, 11, 10)
    /\ idx = 0
    /\ weekly_data = EmptyMap
    /\ todo = {}
    /\ result = [status |-> "none", context |-> "", date |-> NoDate]
    /\ pre = {}
    /\ base = {}
    /\ prior = "none"
    /\ ended = "none"
    /\ last_put = EmptyMap
    /\ \E d \in WeekDates : week_calls = <<d>>
    /\ last_raw = EmptyMap
    /\ database = "sqlite"
    /\ fetch = NoFetch
    /\ runs = NoRuns
    /\ pending = <<>>
    /\ github_releases = <<>>
    /\ total_downloads = 0
    /\ wal = {}

\* get_week_start is called on the latest result (on the date at first); a
\* call that panicked has no result to go on with
CallGetWeekStart ==
    /\ Len(week_calls) \in 1..2
    /\ week_calls[Len(week_calls)] # Overflowed
    /\ week_calls' = Append(week_calls, get_week_start(week_calls[Len(week_calls)]))
    /\ UNCHANGED <<github_snapshots, crates_downloads, crates_metadata,
                   weekly_stats, pc, stages, today, idx, weekly_data, todo,
                   result, pre, base, prior, ended, last_put, last_raw,
                   database, fetch, runs, pending,
                   github_releases, total_downloads, wal>>

NextWeek == CallGetWeekStart

SpecWeek == InitWeek /\ [][NextWeek]_vars

(***************************************************************************)
(* The raw inserts on their own                                            *)
(*                                                                         *)
(* Any sequence of db::insert_github_snapshot and db::insert_crates_download*)
(* calls on a fresh database, as long as the tables hold MaxStored rows or *)
(* fewer.                                                                  *)
(***************************************************************************)
\* last_raw after a call for key k with this count
Called(k, count) ==
    MapPut(last_raw, k,
           [count |-> count,
            replaced |-> /\ k \in DOMAIN last_raw
                         /\ (last_raw[k].replaced \/ last_raw[k].count # count)])

InsertGithubSnapshot(date, release_tag, asset_name, download_count) ==
    /\ github_snapshots' = insert_github_snapshot(github_snapshots, date,
                               release_tag, asset_name, download_count)
    /\ Cardinality(github_snapshots') + Cardinality(crates_downloads) <= MaxStored
    /\ last_raw' = Called(<<"github_snapshots", to_string(date), release_tag,
                            asset_name>>, download_count)
    /\ wal' = Logged("github_snapshots")
    /\ UNCHANGED <<crates_downloads, crates_metadata, weekly_stats, pc, stages,
                   today, idx, weekly_data, todo, result, pre, base, prior,
                   ended, last_put, week_calls, database, fetch, runs, pending,
                   github_releases, total_downloads>>

InsertCratesDownload(date, crate_name, version, downloads) ==
    /\ crates_downloads' = insert_crates_download(crates_downloads, date,
                               crate_name, version, downloads)
    /\ Cardinality(github_snapshots) + Cardinality(crates_downloads') <= MaxStored
    /\ last_raw' = Called(<<"crates_downloads", to_string(date), crate_name,
                            version>>, downloads)
    /\ wal' = Logged("crates_downloads")
    /\ UNCHANGED <<github_snapshots, crates_metadata, weekly_stats, pc, stages,
                   today, idx, weekly_data, todo, result, pre, base, prior,
                   ended, last_put, week_calls, database, fetch, runs, pending,
                   github_releases, total_downloads>>

NextRaw ==
    \/ \E date \in Days, release_tag \in Tags, asset_name \in AssetNames,
          download_count \in Counts :
          InsertGithubSnapshot(date, release_tag, asset_name, download_count)
    \/ \E date \in Days, crate_name \in {CratesSources[n] : n \in DOMAIN CratesSources},
          version \in {"", "1"}, downloads \in Downloads :
          InsertCratesDownload(date, crate_name, version, downloads)

SpecRaw == Init /\ [][NextRaw]_vars

(***************************************************************************)
(* collect --skip-crates --skip-aggregation, day after day: only           *)
(* collect_github_stats runs                                               *)
(***************************************************************************)
NextGithub ==
    \/ \E now \in Days : RunCollect(FALSE, TRUE, TRUE, now)
    \/ \E releases \in FetchedListings : CollectGithub(releases)
    \/ InsertGithubAsset
    \/ CollectGithubReturn
    \/ CollectGithubFail
    \/ Kill

SpecGithub == Init /\ [][NextGithub]_vars

(***************************************************************************)
(* The same command when GitHub reports counts whose u64 sum passes        *)
(* u64::MAX                                                                *)
(***************************************************************************)
\* download counts up to half the range of a u64
WideCounts == {1, 2^(WordBits - 1)}
\* one cargo-nextest release with two assets
WideReleases ==
    {<<[tag_name |-> "cargo-nextest-0.9.1",
        assets |-> <<[name |-> "a.tar.gz", download_count |-> c1],
                     [name |-> "b.zip", download_count |-> c2]>>]>> :
        c1 \in WideCounts, c2 \in WideCounts}

NextGithubWide ==
    \/ \E now \in Days : RunCollect(FALSE, TRUE, TRUE, now)
    \/ \E releases \in WideReleases : CollectGithub(releases)
    \/ InsertGithubAsset
    \/ CollectGithubWrap
    \/ CollectGithubPanic
    \/ CollectGithubReturn
    \/ Kill

SpecGithubWide == Init /\ [][NextGithubWide]_vars

(***************************************************************************)
(* Two processes run compute_all_weekly over one database file whose raw   *)
(* tables nobody changes. The connections are in autocommit mode: every    *)
(* query and every INSERT OR REPLACE is a transaction of its own, and      *)
(* SQLite serialises them in some order. The database is in WAL mode: an   *)
(* INSERT appends the pages of weekly_stats to the write-ahead log, which  *)
(* is copied into the file when the last connection is closed. A writer    *)
(* that finds the write lock taken waits for the busy timeout of the       *)
(* connection and then fails with "database is locked".                    *)
(***************************************************************************)
Processes == {"first", "second"}

\* the positions in which a run executes INSERT statements
InsertPositions == {"crates_write", "github_write"}

\* run q has an INSERT to execute: it is the one that may hold the write lock
Writing(q) == runs[q].pc \in InsertPositions /\ runs[q].todo # {}

\* run p closes its connection: the log is checkpointed when no other
\* connection is open
CloseRun(p) ==
    wal' = IF \A q \in Processes \ {p} : runs[q].pc = "done" THEN {} ELSE wal

\* the context compute_all_weekly gives an error of the stage at position at
StageContext(at) ==
    IF at = "crates_write" THEN "failed to compute crates.io weekly aggregates"
    ELSE "failed to compute GitHub weekly aggregates"

\* insert_weekly_stat fails on the lock: "failed to insert weekly stat",
\* caused by "database is locked"; no date is named
Locked(at) == [status |-> "err", context |-> StageContext(at), date |-> NoDate]

InitTwoRuns ==
    /\ github_snapshots \in StoredGithubTables(MaxStored)
    /\ crates_downloads
          \in StoredCratesTables(MaxStored - Cardinality(github_snapshots))
    /\ crates_metadata = {}
    /\ weekly_stats \in StoredWeeklyTables
    /\ pc = "idle"
    /\ stages = <<>>
    /\ today = DaysFromCivil(2025, 12, 4)
    /\ idx = 0
    /\ weekly_data = EmptyMap
    /\ todo = {}
    /\ result = [status |-> "none", context |-> "", date |-> NoDate]
    /\ pre = weekly_stats
    /\ base = {}
    /\ prior = "none"
    /\ ended = "none"
    /\ last_put = EmptyMap
    /\ week_calls = <<>>
    /\ last_raw = EmptyMap
    /\ database = "sqlite"
    /\ fetch = NoFetch
    /\ runs = [p \in Processes |->
                  [pc |-> "crates_scan", weekly_data |-> EmptyMap, todo |-> {},
                   result |-> Running]]
    /\ pending = <<>>
    /\ github_releases = <<>>
    /\ total_downloads = 0
    /\ wal = {}

\* what a step of one of the two runs leaves alone
OtherRunsUnchanged ==
    UNCHANGED <<github_snapshots, crates_downloads, crates_metadata, pc,
                stages, today, idx, weekly_data, todo, result, pre, base,
                prior, ended, last_put, week_calls, last_raw, database, fetch,
                pending, github_releases, total_downloads>>

\* p's compute_crates_weekly runs its query and its summing loop
RunCratesScan(p) ==
    /\ runs[p].pc = "crates_scan"
    /\ LET r == CratesScan(CratesQuery(crates_downloads), 1, EmptyMap)
       IN  /\ runs' = [runs EXCEPT ![p] =
                IF r.ok
                THEN [pc |-> "crates_write", weekly_data |-> r.weekly_data,
                      todo |-> DOMAIN r.weekly_data, result |-> Running]
                ELSE [pc |-> "done", weekly_data |-> EmptyMap, todo |-> {},
                      result |-> Err("failed to compute crates.io weekly aggregates",
                                     r.error)]]
           /\ IF r.ok THEN wal' = wal ELSE CloseRun(p)
    /\ UNCHANGED weekly_stats
    /\ OtherRunsUnchanged

\* one iteration of the insert loop of p's compute_crates_weekly
RunCratesInsert(p, k) ==
    /\ runs[p].pc = "crates_write"
    /\ k \in runs[p].todo
    /\ weekly_stats' = insert_weekly_stat(weekly_stats, k[1], "crates", k[2],
                                          runs[p].weekly_data[k])
    /\ runs' = [runs EXCEPT ![p].todo = @ \ {k}]
    /\ wal' = Logged("weekly_stats")
    /\ OtherRunsUnchanged

\* p's compute_crates_weekly returns Ok; its compute_github_weekly runs its
\* query and its delta loop
RunGithubScan(p) ==
    /\ runs[p].pc = "crates_write"
    /\ runs[p].todo = {}
    /\ LET r == GithubScan(GithubQuery(github_snapshots), 1, GithubInit)
       IN  /\ runs' = [runs EXCEPT ![p] =
                IF r.ok
                THEN [pc |-> "github_write", weekly_data |-> r.weekly_data,
                      todo |-> DOMAIN r.weekly_data, result |-> Running]
                ELSE [pc |-> "done", weekly_data |-> EmptyMap, todo |-> {},
                      result |-> Err("failed to compute GitHub weekly aggregates",
                                     r.error)]]
           /\ IF r.ok THEN wal' = wal ELSE CloseRun(p)
    /\ UNCHANGED weekly_stats
    /\ OtherRunsUnchanged

\* one iteration of the insert loop of p's compute_github_weekly
RunGithubInsert(p, w) ==
    /\ runs[p].pc = "github_write"
    /\ w \in runs[p].todo
    /\ weekly_stats' = insert_weekly_stat(weekly_stats, w, "github", "releases",
                                          runs[p].weekly_data[w])
    /\ runs' = [runs EXCEPT ![p].todo = @ \ {w}]
    /\ wal' = Logged("weekly_stats")
    /\ OtherRunsUnchanged

\* an INSERT of p finds the write lock held by another run for longer than
\* the busy timeout: insert_weekly_stat returns Err and `?` ends p's
\* compute_all_weekly, its row not written; p's connection is still open
RunInsertLocked(p) ==
    /\ Writing(p)
    /\ \E q \in Processes \ {p} : Writing(q)
    /\ runs' = [runs EXCEPT ![p] =
                   [pc |-> "locked", weekly_data |-> EmptyMap, todo |-> {},
                    result |-> Locked(runs[p].pc)]]
    /\ UNCHANGED <<weekly_stats, wal>>
    /\ OtherRunsUnchanged

\* p, whose INSERT failed on the lock, returns the error from run_collect:
\* its Connection is dropped and the process exits
RunLockedReturn(p) ==
    /\ runs[p].pc = "locked"
    /\ runs' = [runs EXCEPT ![p].pc = "done"]
    /\ CloseRun(p)
    /\ UNCHANGED weekly_stats
    /\ OtherRunsUnchanged

\* p's compute_github_weekly and compute_all_weekly return Ok
RunReturn(p) ==
    /\ runs[p].pc = "github_write"
    /\ runs[p].todo = {}
    /\ runs' = [runs EXCEPT ![p] =
                   [pc |-> "done", weekly_data |-> EmptyMap, todo |-> {},
                    result |-> Ok]]
    /\ CloseRun(p)
    /\ UNCHANGED weekly_stats
    /\ OtherRunsUnchanged

NextTwoRuns ==
    \E p \in Processes :
        \/ RunCratesScan(p)
        \/ \E k \in runs[p].todo : RunCratesInsert(p, k)
        \/ RunGithubScan(p)
        \/ \E w \in runs[p].todo : RunGithubInsert(p, w)
        \/ RunInsertLocked(p)
        \/ RunLockedReturn(p)
        \/ RunReturn(p)

SpecTwoRuns == InitTwoRuns /\ [][NextTwoRuns]_vars

(***************************************************************************)
(* github::fetch_releases on its own                                       *)
(*                                                                         *)
(* The server answers each request with a page of releases of any length   *)
(* up to per_page, or the request fails. A repository has finitely many    *)
(* releases: by page MaxPages the server has run out of full pages.        *)
(***************************************************************************)
\* the releases of a page of n releases, each named by its page and position
PageOf(page, n) == [i \in 1..n |-> <<page, i>>]

\* the contexts of the three ways a request fails: send() returns Err, the
\* status is not a success, the body is no list of releases
FetchFailures ==
    {"failed to fetch releases page", "GitHub API request failed",
     "failed to parse GitHub API response"}

\* fetch_releases is called: page = 1, all_releases empty
InitFetch ==
    /\ github_snapshots = {}
    /\ crates_downloads = {}
    /\ crates_metadata = {}
    /\ weekly_stats = {}
    /\ pc = "idle"
    /\ stages = <<>>
    /\ today = DaysFromCivil(2025, 11, 10)
    /\ idx = 0
    /\ weekly_data = EmptyMap
    /\ todo = {}
    /\ result = [status |-> "none", context |-> "", date |-> NoDate]
    /\ pre = {}
    /\ base = {}
    /\ prior = "none"
    /\ ended = "none"
    /\ last_put = EmptyMap
    /\ week_calls = <<>>
    /\ last_raw = EmptyMap
    /\ database = "sqlite"
    /\ fetch = [status |-> "running", page |-> 1, all_releases |-> <<>>,
                received |-> <<>>, returned |-> <<>>]
    /\ runs = NoRuns
    /\ pending = <<>>
    /\ github_releases = <<>>
    /\ total_downloads = 0
    /\ wal = {}

\* mutant: one request, no loop
FetchPageFirstOnly(n) ==
    /\ fetch.status = "running"
    /\ fetch.page < MaxPages \/ n < PerPage
    /\ fetch' = [status |-> "ok", page |-> fetch.page,
                 all_releases |-> PageOf(fetch.page, n),
                 received |-> Append(fetch.received,
                                     [page |-> fetch.page, failure |-> "",
                                      releases |-> PageOf(fetch.page, n)]),
                 returned |-> <<"Ok", PageOf(fetch.page, n)>>]
    /\ UNCHANGED <<github_snapshots, crates_downloads, crates_metadata,
                   weekly_stats, pc, stages, today, idx, weekly_data, todo,
                   result, pre, base, prior, ended, last_put, week_calls,
                   last_raw, database, runs, pending, github_releases, total_downloads,
                   wal>>

\* one turn of the loop with a page of n releases as the response:
\* all_releases.extend(releases), then break and return Ok(all_releases) when
\* n < per_page, else page += 1
FetchPage(n) ==
    /\ fetch.status = "running"
    /\ fetch.page < MaxPages \/ n < PerPage
    /\ LET releases == PageOf(fetch.page, n)
           all == fetch.all_releases \o releases
           is_last_page == Len(releases) < PerPage
       IN  fetch' = [status |-> IF is_last_page THEN "ok" ELSE "running",
                     page |-> IF is_last_page THEN fetch.page ELSE fetch.page + 1,
                     all_releases |-> all,
                     received |-> Append(fetch.received,
                                         [page |-> fetch.page, failure |-> "",
                                          releases |-> releases]),
                     returned |-> IF is_last_page THEN <<"Ok", all>> ELSE <<>>]
    /\ UNCHANGED <<github_snapshots, crates_downloads, crates_metadata,
                   weekly_stats, pc, stages, today, idx, weekly_data, todo,
                   result, pre, base, prior, ended, last_put, week_calls,
                   last_raw, database, runs, pending, github_releases, total_downloads,
                   wal>>

\* one turn of the loop with a failing request: the `?` or the bail! returns
\* Err, and all_releases is dropped
FetchPageFail(failure) ==
    /\ fetch.status = "running"
    /\ fetch' = [status |-> "err", page |-> fetch.page, all_releases |-> <<>>,
                 received |-> Append(fetch.received,
                                     [page |-> fetch.page, failure |-> failure,
                                      releases |-> <<>>]),
                 returned |-> <<"Err", failure>>]
    /\ UNCHANGED <<github_snapshots, crates_downloads, crates_metadata,
                   weekly_stats, pc, stages, today, idx, weekly_data, todo,
                   result, pre, base, prior, ended, last_put, week_calls,
                   last_raw, database, runs, pending, github_releases, total_downloads,
                   wal>>

NextFetch ==
    \/ \E n \in 0..PerPage : FetchPage(n)
    \/ \E failure \in FetchFailures : FetchPageFail(failure)

\* the loop is driven by the runtime as long as the call is awaited
SpecFetch == InitFetch /\ [][NextFetch]_vars /\ WF_vars(NextFetch)

(***************************************************************************)
(* compute_all_weekly on a stored database with counts up to i64::MAX      *)
(*                                                                         *)
(* An INTEGER column holds any i64. The rows here are non-negative, dated  *)
(* within the week of Monday 2025-11-17, and as large as the column allows.*)
(***************************************************************************)
WideGithubRows ==
    [date : {to_string(DaysFromCivil(2025, 11, 17) + n) : n \in 0..(MaxWide - 1)},
     release_tag : {"cargo-nextest-0.9.1"}, asset_name : {"a.tar.gz"},
     download_count : {0, I64Max, u64_as_i64(U64Modulus - 1)}]
WideCratesRows ==
    [date : {<<2025, 2, 30>>, <<2025, 11, 17>>, <<2025, 11, 18>>, <<2025, 11, 19>>},
     crate_name : {"cargo-nextest"}, version : {"", "1"},
     downloads : {1, I64Max}]

InitWide ==
    /\ github_snapshots
          \in {t \in SubsetsUpTo(WideGithubRows, MaxWide) : GithubKeyUnique(t)}
    /\ crates_downloads
          \in {t \in SubsetsUpTo(WideCratesRows,
                                 MaxWide - Cardinality(github_snapshots)) :
                  CratesKeyUnique(t)}
    /\ crates_metadata = {}
    /\ weekly_stats = {}
    /\ pc = "crates_scan"
    /\ stages = <<>>
    /\ today = DaysFromCivil(2025, 12, 4)
    /\ idx = 0
    /\ weekly_data = EmptyMap
    /\ todo = {}
    /\ result = Running
    /\ pre = {}
    /\ base = {}
    /\ prior = "none"
    /\ ended = "none"
    /\ last_put = EmptyMap
    /\ week_calls = <<>>
    /\ last_raw = EmptyMap
    /\ database = "sqlite"
    /\ fetch = NoFetch
    /\ runs = NoRuns
    /\ pending = <<>>
    /\ github_releases = <<>>
    /\ total_downloads = 0
    /\ wal = {}

NextWide ==
    \/ CratesScanStep
    \/ CratesScanPanic
    \/ \E k \in todo : CratesInsert(k)
    \/ GithubScanStep
    \/ GithubScanPanic
    \/ \E w \in todo : GithubInsert(w)
    \/ Return

SpecWide == InitWide /\ [][NextWide]_vars

(***************************************************************************)
(* get_week_start                                                          *)
(***************************************************************************)
\* 2025-11-17 is a Monday (test_get_week_start_already_monday)
IsMonday(d) == (d - DaysFromCivil(2025, 11, 17)) % 7 = 0

\* the first Monday that is a NaiveDate
FirstMonday == CHOOSE m \in MinDate..(MinDate + 6) : IsMonday(m)

\* r is the Monday of the week that contains d
MondayOfWeek(d, r) == r # Overflowed /\ IsMonday(r) /\ r <= d /\ d - r \in 0..6

(***************************************************************************)
(* C11 as stated: for every date d, get_week_start(d) is a Monday, is not  *)
(* after d, and is at most 6 days before d.                                *)
(***************************************************************************)
C11_Original ==
    Len(week_calls) >= 2 => MondayOfWeek(week_calls[1], week_calls[2])

(***************************************************************************)
(* C11: for every date d on or after the first Monday of the range of      *)
(* NaiveDate, get_week_start(d) is a Monday, is not after d, and is at     *)
(* most 6 days before d.                                                   *)
(***************************************************************************)
C11_WeekStartIsMonday ==
    (Len(week_calls) >= 2 /\ week_calls[1] >= FirstMonday)
        => MondayOfWeek(week_calls[1], week_calls[2])

\* Sunday 2024-03-03 goes back over the leap day to Monday 2024-02-26
C11_Witness ==
    /\ Len(week_calls) >= 2
    /\ week_calls[1] = DaysFromCivil(2024, 3, 3)
    /\ to_string(week_calls[2]) = <<2024, 2, 26>>

(***************************************************************************)
(* C12 as stated: for every date d, get_week_start returns on d and        *)
(* returns the same date when called again on its result; on a Monday it   *)
(* returns the date itself.                                                *)
(***************************************************************************)
C12_Original ==
    /\ Len(week_calls) >= 2 => week_calls[2] # Overflowed
    /\ Len(week_calls) = 3 => week_calls[3] = week_calls[2]
    /\ (Len(week_calls) >= 2 /\ IsMonday(week_calls[1]))
          => week_calls[2] = week_calls[1]

(***************************************************************************)
(* C12: for every date d on or after the first Monday of the range of      *)
(* NaiveDate, get_week_start called on get_week_start(d) returns           *)
(* get_week_start(d) again; on a Monday it returns the date itself.        *)
(***************************************************************************)
C12_WeekStartIdempotent ==
    week_calls # <<>> /\ week_calls[1] >= FirstMonday =>
        /\ Len(week_calls) >= 2 => week_calls[2] # Overflowed
        /\ Len(week_calls) = 3 => week_calls[3] = week_calls[2]
        /\ (Len(week_calls) >= 2 /\ IsMonday(week_calls[1]))
              => week_calls[2] = week_calls[1]

\* a second call on the Monday that Thursday 2024-02-29 was sent to
C12_Witness ==
    /\ Len(week_calls) = 3
    /\ to_string(week_calls[1]) = <<2024, 2, 29>>
    /\ week_calls[1] - week_calls[2] = 3
    /\ week_calls[3] = week_calls[2]

(***************************************************************************)
(* What the weekly table is specified to hold, stated on the raw tables    *)
(***************************************************************************)
\* the Monday on or before day d (day 1, 0001-01-01, is a Monday)
MondayOnOrBefore(d) == CHOOSE m \in (d - 6)..d : (m - 1) % 7 = 0

\* week_bucket of a stored date, as stored text
WeekOf(s) == to_string(MondayOnOrBefore(parse_from_str(s)))

Get(m, k) == IF k \in DOMAIN m THEN m[k] ELSE 0

\* the rows of package P whose date falls in the week starting W
CratesWeekRows(W, P) ==
    {r \in crates_downloads : r.crate_name = P /\ WeekOf(r.date) = W}

SameAsset(a, b) == a.release_tag = b.release_tag /\ a.asset_name = b.asset_name

\* the snapshots of r's key taken before r
Earlier(r) ==
    {p \in github_snapshots : SameAsset(p, r) /\ DateTextLess(p.date, r.date)}

\* the snapshot of r's key just before r (Earlier(r) is not empty)
Previous(r) ==
    CHOOSE p \in Earlier(r) : \A q \in Earlier(r) : q = p \/ DateTextLess(q.date, p.date)

\* max(0, new_count - previous_count) of a snapshot that has a previous one
ClampedDelta(r) ==
    IF r.download_count > Previous(r).download_count
    THEN r.download_count - Previous(r).download_count
    ELSE 0

RECURSIVE SumDeltas(_)
SumDeltas(S) ==
    IF S = {} THEN 0
    ELSE LET r == CHOOSE x \in S : TRUE
         IN  ClampedDelta(r) + SumDeltas(S \ {r})

\* the later snapshots of all consecutive pairs whose later date falls in the
\* week starting W
GithubWeekRows(W) ==
    {r \in github_snapshots : Earlier(r) # {} /\ WeekOf(r.date) = W}

GithubWeeklyRows == {w \in weekly_stats : w.source = "github"}
CratesWeeklyRows == {w \in weekly_stats : w.source = "crates"}

\* the rows of weekly_stats under one primary key
RowsAt(week_start, source, identifier) ==
    {w \in weekly_stats : /\ w.week_start = week_start
                          /\ w.source = source
                          /\ w.identifier = identifier}

\* compute_crates_weekly has returned Ok in the running compute_all_weekly
CratesStageDone == (pc = "crates_write" /\ todo = {}) \/ pc = "github_write"

\* the rows of compute_github_weekly's query, and weekly_data after the loop
\* has handled the first n of them
ScannedRows == GithubQuery(github_snapshots)
WeeklyAfter(n) == GithubScan(SubSeq(ScannedRows, 1, n), 1, GithubInit).weekly_data

(***************************************************************************)
(* C1: after a successful compute_crates_weekly, the weekly row            *)
(* (W, "crates", P) is the only row under its key and holds the sum of     *)
(* downloads over all crates_downloads rows of P, of every version, whose  *)
(* date falls in the week starting W.                                      *)
(***************************************************************************)
C1_CratesWeeklySum ==
    CratesStageDone =>
        /\ \A r \in crates_downloads :
              RowsAt(WeekOf(r.date), "crates", r.crate_name)
                 = {[week_start |-> WeekOf(r.date), source |-> "crates",
                     identifier |-> r.crate_name,
                     downloads |->
                        SumDownloads(CratesWeekRows(WeekOf(r.date), r.crate_name))]}
        /\ \A w \in CratesWeeklyRows \ pre :
              CratesWeekRows(w.week_start, w.identifier) # {}

\* a week of a package summed from an extra row and a per-version row of two
\* different days, beside a row that belongs to another week or package
C1_Witness ==
    /\ CratesStageDone
    /\ \E r1 \in crates_downloads, r2 \in crates_downloads, r3 \in crates_downloads :
          /\ r1.crate_name = r2.crate_name
          /\ WeekOf(r1.date) = WeekOf(r2.date)
          /\ r1.date # r2.date
          /\ r1.version = "" /\ r2.version # ""
          /\ r3.crate_name # r1.crate_name \/ WeekOf(r3.date) # WeekOf(r1.date)
          /\ [week_start |-> WeekOf(r1.date), source |-> "crates",
              identifier |-> r1.crate_name,
              downloads |-> r1.downloads + r2.downloads] \in weekly_stats

(***************************************************************************)
(* C2: in compute_github_weekly's loop, a snapshot that has a previous     *)
(* snapshot of its key adds max(0, new_count - previous_count) to its week *)
(* and nothing to any other week, so no pair lowers a weekly total.        *)
(***************************************************************************)
C2_DeltaClamped ==
    pc = "github_write" =>
        /\ weekly_data = WeeklyAfter(Len(ScannedRows))
        /\ \A n \in 1..Len(ScannedRows) :
              LET r == ScannedRows[n]
              IN  Earlier(r) # {} =>
                    \A w \in DOMAIN weekly_data :
                        /\ Get(WeeklyAfter(n), w) >= Get(WeeklyAfter(n - 1), w)
                        /\ Get(WeeklyAfter(n), w) - Get(WeeklyAfter(n - 1), w)
                              = IF to_string(w) = WeekOf(r.date)
                                THEN ClampedDelta(r) ELSE 0

\* a regressing counter whose week got nothing from it
C2_Witness ==
    /\ pc = "github_write"
    /\ \E r \in github_snapshots :
          /\ Earlier(r) # {}
          /\ r.download_count < Previous(r).download_count
          /\ GithubWeekRows(WeekOf(r.date)) = {r}
          /\ Get(weekly_data, get_week_start(parse_from_str(r.date))) = 0
          /\ get_week_start(parse_from_str(r.date)) \in DOMAIN weekly_data

(***************************************************************************)
(* C3: each week's GitHub total is the sum of the clamped deltas of the    *)
(* consecutive pairs whose later snapshot falls in that week, however far  *)
(* back the earlier snapshot lies, and that is the row the run writes.     *)
(***************************************************************************)
C3_DeltaInLaterWeek ==
    pc = "github_write" =>
        /\ \A r \in github_snapshots :
              LET w == get_week_start(parse_from_str(r.date))
              IN  Get(weekly_data, w) = SumDeltas(GithubWeekRows(to_string(w)))
        /\ \A w \in DOMAIN weekly_data : GithubWeekRows(to_string(w)) # {}
        /\ todo = {} =>
              \A w \in DOMAIN weekly_data :
                  RowsAt(to_string(w), "github", "releases")
                     = {[week_start |-> to_string(w), source |-> "github",
                         identifier |-> "releases", downloads |-> weekly_data[w]]}

\* one key seen in three different weeks, growing and then regressing: the
\* second week gets the growth, the third gets 0, the first gets no row
C3_Witness ==
    /\ pc = "github_write" /\ todo = {}
    /\ \E r1 \in github_snapshots, r2 \in github_snapshots, r3 \in github_snapshots :
          /\ SameAsset(r1, r2) /\ SameAsset(r2, r3)
          /\ DateTextLess(r1.date, r2.date) /\ DateTextLess(r2.date, r3.date)
          /\ r1.download_count < r2.download_count
          /\ r3.download_count < r2.download_count
          /\ RowsAt(WeekOf(r1.date), "github", "releases") = {}
          /\ [week_start |-> WeekOf(r2.date), source |-> "github",
              identifier |-> "releases",
              downloads |-> r2.download_count - r1.download_count] \in weekly_stats
          /\ [week_start |-> WeekOf(r3.date), source |-> "github",
              identifier |-> "releases", downloads |-> 0] \in weekly_stats

(***************************************************************************)
(* C4: the earliest snapshot of a key adds nothing to any week; when every *)
(* key has a single snapshot the run computes no GitHub total and writes   *)
(* no GitHub row.                                                          *)
(***************************************************************************)
EveryKeySingle == \A r \in github_snapshots : Earlier(r) = {}

C4_FirstSnapshotSeedsOnly ==
    pc = "github_write" =>
        /\ \A n \in 1..Len(ScannedRows) :
              Earlier(ScannedRows[n]) = {} => WeeklyAfter(n) = WeeklyAfter(n - 1)
        /\ EveryKeySingle =>
              weekly_data = EmptyMap /\ GithubWeeklyRows \subseteq pre

\* two keys with one snapshot each, the insert loop over, no GitHub row
C4_Witness ==
    /\ pc = "github_write" /\ todo = {}
    /\ EveryKeySingle
    /\ Cardinality(github_snapshots) >= 2
    /\ CratesWeeklyRows # {}
    /\ GithubWeeklyRows = {}

(***************************************************************************)
(* Scan orders                                                             *)
(***************************************************************************)
\* the sequences that hold every element of the sequence rows once
ScanOrders(rows) ==
    {p \in [1..Len(rows) -> {rows[i] : i \in 1..Len(rows)}] :
        \A i \in 1..Len(rows) : \E j \in 1..Len(rows) : p[j] = rows[i]}

\* every key's snapshots come in ascending date order in p
KeysInDateOrder(p) ==
    \A i \in 1..Len(p), j \in 1..Len(p) :
        (SameAsset(p[i], p[j]) /\ DateTextLess(p[i].date, p[j].date)) => i < j

(***************************************************************************)
(* C13: scanned in any order, the rows of compute_crates_weekly's query    *)
(* give the weekly totals the run computed, and the rows it wrote.         *)
(***************************************************************************)
C13_CratesOrderIndependent ==
    pc = "crates_write" =>
        \A p \in ScanOrders(CratesQuery(crates_downloads)) :
            LET r == CratesScan(p, 1, EmptyMap)
            IN  /\ r.ok
                /\ r.weekly_data = weekly_data
                /\ todo = {} =>
                      \A k \in DOMAIN r.weekly_data :
                          [week_start |-> to_string(k[1]), source |-> "crates",
                           identifier |-> k[2], downloads |-> r.weekly_data[k]]
                             \in weekly_stats

\* three query rows, two of them of one week and package with different sums
C13_Witness ==
    /\ pc = "crates_write" /\ todo = {}
    /\ LET rows == CratesQuery(crates_downloads)
       IN  /\ Len(rows) = 3
           /\ \E i \in 1..3, j \in 1..3 :
                 /\ i # j
                 /\ rows[i].crate_name = rows[j].crate_name
                 /\ WeekOf(rows[i].date) = WeekOf(rows[j].date)
                 /\ rows[i].total # rows[j].total
                 /\ [week_start |-> WeekOf(rows[i].date), source |-> "crates",
                     identifier |-> rows[i].crate_name,
                     downloads |-> rows[i].total + rows[j].total] \in weekly_stats

(***************************************************************************)
(* C14: scanned in any order that keeps every key's snapshots in ascending *)
(* date order, the rows of compute_github_weekly's query give the weekly   *)
(* totals the run computed.                                                *)
(***************************************************************************)
C14_GithubKeyOrderIndependent ==
    pc = "github_write" =>
        \A p \in ScanOrders(ScannedRows) :
            KeysInDateOrder(p) =>
                LET r == GithubScan(p, 1, GithubInit)
                IN  r.ok /\ r.weekly_data = weekly_data

\* two keys, one with a growing counter, and an order that puts the other
\* key between its two snapshots
C14_Witness ==
    /\ pc = "github_write"
    /\ Len(ScannedRows) = 3
    /\ \E p \in ScanOrders(ScannedRows) :
          /\ KeysInDateOrder(p)
          /\ SameAsset(p[1], p[3]) /\ ~SameAsset(p[1], p[2])
          /\ p[3].download_count > p[1].download_count
          /\ p[2].download_count > p[1].download_count
          /\ weekly_data[get_week_start(parse_from_str(p[3].date))]
                = p[3].download_count - p[1].download_count

(***************************************************************************)
(* The rows one complete run over the present raw store writes             *)
(***************************************************************************)
FullCratesRows ==
    {[week_start |-> WeekOf(r.date), source |-> "crates",
      identifier |-> r.crate_name,
      downloads |-> SumDownloads(CratesWeekRows(WeekOf(r.date), r.crate_name))]
        : r \in crates_downloads}

FullGithubRows ==
    {[week_start |-> WeekOf(r.date), source |-> "github",
      identifier |-> "releases",
      downloads |-> SumDeltas(GithubWeekRows(WeekOf(r.date)))]
        : r \in {x \in github_snapshots : Earlier(x) # {}}}

FullRows == FullCratesRows \cup FullGithubRows

WeeklyKey(w) == <<w.week_start, w.source, w.identifier>>

\* the table a complete run leaves when it starts from table tbl
AfterFullRun(tbl) ==
    {w \in tbl : WeeklyKey(w) \notin {WeeklyKey(f) : f \in FullRows}}
        \cup FullRows

\* the sum of the raw contributions that fall in the week of weekly row w
RawTotal(w) ==
    IF w.source = "crates"
    THEN SumDownloads(CratesWeekRows(w.week_start, w.identifier))
    ELSE SumDeltas(GithubWeekRows(w.week_start))

\* an aggregation run is between two of its statements, or was just killed there
InAggregation ==
    \/ pc \in {"crates_write", "github_write"}
    \/ pc = "idle" /\ result.status = "crashed"

(***************************************************************************)
(* C5: a run of compute_all_weekly that follows a successful run on an     *)
(* unchanged raw store ends with weekly_stats exactly as it found it.      *)
(***************************************************************************)
C5_SecondRunChangesNothing ==
    (pc = "idle" /\ ended = "ok" /\ prior = "ok") => weekly_stats = pre

\* the second of two runs has returned, over a table with a positive total
C5_Witness ==
    /\ pc = "idle" /\ ended = "ok" /\ prior = "ok"
    /\ \E w \in weekly_stats : w.downloads > 1
    /\ weekly_stats = pre

(***************************************************************************)
(* C6: after any sequence of insert_weekly_stat calls every key has        *)
(* exactly one row, holding the downloads of the latest call for that key, *)
(* and the table has no other row.                                         *)
(***************************************************************************)
C6_UpsertOverwritesByKey ==
    /\ \A k \in DOMAIN last_put :
          RowsAt(k[1], k[2], k[3])
             = {[week_start |-> k[1], source |-> k[2], identifier |-> k[3],
                 downloads |-> last_put[k]]}
    /\ \A w \in weekly_stats : WeeklyKey(w) \in DOMAIN last_put

\* a call has replaced the row of its key by a row with another value, next to
\* the row of another key
C6_Witness ==
    /\ pc \in {"crates_write", "github_write"}
    /\ \E w \in weekly_stats, old \in pre :
          /\ WeeklyKey(old) = WeeklyKey(w)
          /\ old.downloads # w.downloads
          /\ old.downloads > 0
          /\ last_put[WeeklyKey(w)] = w.downloads
    /\ Cardinality(weekly_stats) >= 2

(***************************************************************************)
(* C7 as stated: in every state between two commands, every weekly row     *)
(* holds the sum of the raw contributions of its week, recomputed from the *)
(* present raw store.                                                      *)
(***************************************************************************)
C7_Original ==
    pc = "idle" => \A w \in weekly_stats : w.downloads = RawTotal(w)

(***************************************************************************)
(* C7: once compute_all_weekly has returned Ok, and for as long as the raw *)
(* store is not changed after it, every weekly row holds the sum of the    *)
(* raw contributions of its week, recomputed from the raw store.           *)
(***************************************************************************)
C7_WeeklyEqualsRawTotals ==
    ended = "ok" => \A w \in weekly_stats : w.downloads = RawTotal(w)

\* a successful run has replaced an older total by the one of the present store
C7_Witness ==
    /\ pc = "idle" /\ ended = "ok"
    /\ \E w \in weekly_stats, old \in pre :
          /\ WeeklyKey(old) = WeeklyKey(w)
          /\ old.downloads < w.downloads
          /\ w.downloads = RawTotal(w)

\* the stored date strings that are no calendar date
Unparsable(tbl) == {r.date : r \in {x \in tbl : parse_from_str(x.date) = Unparsed}}

Failed == pc = "idle" /\ result.status = "err"
CratesContext == "failed to compute crates.io weekly aggregates"
GithubContext == "failed to compute GitHub weekly aggregates"

(***************************************************************************)
(* C8 as stated: when a raw date string read by the run does not parse,    *)
(* compute_all_weekly returns an error that carries the string, and the    *)
(* run has written or changed no weekly_stats row.                         *)
(***************************************************************************)
C8_Original ==
    Failed =>
        /\ result.date \in Unparsable(crates_downloads)
                              \cup Unparsable(github_snapshots)
        /\ weekly_stats = pre

(***************************************************************************)
(* C8: a raw date string that does not parse makes the stage that reads it *)
(* return an error that carries the string, before that stage writes any   *)
(* row, and compute_all_weekly returns it and runs no later stage. A       *)
(* failure of the crates stage leaves weekly_stats as the run found it; a  *)
(* failure of the GitHub stage leaves every "github" row as the run found  *)
(* it, next to the complete "crates" rows the run has already written.     *)
(***************************************************************************)
C8_BadDateAbortsStage ==
    /\ CratesStageDone => Unparsable(crates_downloads) = {}
    /\ (pc = "github_write" \/ (pc = "idle" /\ result.status = "ok"))
          => Unparsable(github_snapshots) = {}
    /\ Failed =>
          /\ result.context \in {CratesContext, GithubContext}
          /\ result.context = CratesContext =>
                /\ result.date \in Unparsable(crates_downloads)
                /\ weekly_stats = pre
          /\ result.context = GithubContext =>
                /\ result.date \in Unparsable(github_snapshots)
                /\ GithubWeeklyRows = {w \in pre : w.source = "github"}
                /\ CratesWeeklyRows
                      = {w \in AfterFullRun(pre) : w.source = "crates"}

\* the GitHub stage failed on a stored date after the crates stage had written
\* its rows; the stale GitHub row is as before
C8_Witness ==
    /\ Failed
    /\ result.context = GithubContext
    /\ result.date = <<2025, 2, 30>>
    /\ GithubWeeklyRows # {}
    /\ weekly_stats # pre

(***************************************************************************)
(* C15: when the crates stage of compute_all_weekly fails, the run makes   *)
(* no insert_weekly_stat call with source "github" and returns an error    *)
(* that names the crates stage; when the crates stage succeeds and the     *)
(* GitHub stage fails, the returned error names the GitHub stage.          *)
(***************************************************************************)
C15_StageNamedShortCircuit ==
    pc = "idle" =>
        /\ Unparsable(crates_downloads) # {} =>
              /\ Failed
              /\ result.context = CratesContext
              /\ \A k \in DOMAIN last_put : k[2] # "github"
              /\ GithubWeeklyRows = {w \in pre : w.source = "github"}
        /\ (Unparsable(crates_downloads) = {} /\ Unparsable(github_snapshots) # {}) =>
              /\ Failed
              /\ result.context = GithubContext
        /\ Failed => Unparsable(crates_downloads) \cup Unparsable(github_snapshots) # {}

\* the crates stage failed on a store whose GitHub snapshots have a delta to
\* write, and no GitHub row was written
C15_Witness ==
    /\ Failed
    /\ result.context = CratesContext
    /\ FullGithubRows # {}
    /\ FullGithubRows \cap weekly_stats = {}
    /\ last_put = EmptyMap

(***************************************************************************)
(* C16: every insert_weekly_stat call of the aggregation engine has a      *)
(* week_start that is a Monday; a call with source "github" has identifier *)
(* "releases", so that a week has one GitHub row, and a call with source   *)
(* "crates" has the name of a package of crates_downloads as identifier.   *)
(***************************************************************************)
C16_WrittenRowsShape ==
    /\ \A k \in DOMAIN last_put :
          /\ parse_from_str(k[1]) # Unparsed
          /\ IsMonday(parse_from_str(k[1]))
          /\ k[2] \in {"crates", "github"}
          /\ k[2] = "github" => k[3] = "releases"
          /\ k[2] = "crates" => k[3] \in {r.crate_name : r \in crates_downloads}
          /\ [week_start |-> k[1], source |-> k[2], identifier |-> k[3],
              downloads |-> last_put[k]] \in weekly_stats
    /\ \A a \in GithubWeeklyRows, b \in GithubWeeklyRows :
          a.week_start = b.week_start => a = b

\* rows of both sources written from raw dates that are no Mondays
C16_Witness ==
    /\ pc = "idle" /\ result.status = "ok"
    /\ \E k \in DOMAIN last_put : k[2] = "github"
    /\ \E k \in DOMAIN last_put : k[2] = "crates"
    /\ \A r \in github_snapshots : ~IsMonday(parse_from_str(r.date))
    /\ \A r \in crates_downloads : ~IsMonday(parse_from_str(r.date))

(***************************************************************************)
(* C9: at every point of an aggregation run, and after a kill between any  *)
(* two of its upserts, every weekly row holds the value it had before the  *)
(* run or the complete total of its key, and no key has two rows.          *)
(***************************************************************************)
C9_NoPartialSum ==
    InAggregation =>
        /\ \A w \in weekly_stats : w \in pre \/ w.downloads = RawTotal(w)
        /\ \A a \in weekly_stats, b \in weekly_stats :
              WeeklyKey(a) = WeeklyKey(b) => a = b

\* a killed run that updated one key and left another with its value of
\* before the run, which is not the total of the present store
C9_Witness ==
    /\ pc = "idle" /\ result.status = "crashed"
    /\ \E a \in weekly_stats \ pre : a.downloads = RawTotal(a)
    /\ \E b \in weekly_stats \cap pre : b.downloads # RawTotal(b)

(***************************************************************************)
(* C10: a complete run that follows killed runs on the same raw data       *)
(* leaves weekly_stats as one complete run from the table the first killed *)
(* run started from leaves it.                                             *)
(***************************************************************************)
C10_RerunAfterInterrupt ==
    (pc = "idle" /\ ended = "ok" /\ prior = "crashed")
        => weekly_stats = AfterFullRun(base)

\* the killed run had written some of its rows and not others
C10_Witness ==
    /\ pc = "idle" /\ ended = "ok" /\ prior = "crashed"
    /\ base # {}
    /\ pre # base
    /\ weekly_stats # pre
    /\ weekly_stats = AfterFullRun(base)

(***************************************************************************)
(* C17                                                                     *)
(***************************************************************************)
\* every count of the raw store is non-negative
RawNonNegative ==
    /\ \A r \in github_snapshots : r.download_count >= 0
    /\ \A r \in crates_downloads : r.downloads >= 0

\* C17: over a raw store whose cumulative counts and daily download counts are
\* non-negative, every downloads value written to weekly_stats is non-negative
C17_Original ==
    RawNonNegative => \A w \in weekly_stats : w.downloads >= 0

(***************************************************************************)
(* C18                                                                     *)
(***************************************************************************)
\* the rows of a raw table under a key of last_raw
RawRowsAt(k) ==
    IF k[1] = "github_snapshots"
    THEN {[key |-> k, count |-> r.download_count] :
            r \in {x \in github_snapshots :
                     <<x.date, x.release_tag, x.asset_name>> = <<k[2], k[3], k[4]>>}}
    ELSE {[key |-> k, count |-> r.downloads] :
            r \in {x \in crates_downloads :
                     <<x.date, x.crate_name, x.version>> = <<k[2], k[3], k[4]>>}}

\* collecting once more on the same day with the same upstream data changes
\* nothing
CollectedTwice ==
    /\ \A releases \in FetchedReleases :
          LET once == InsertReleases(github_snapshots, today, releases, 1)
          IN  InsertReleases(once, today, releases, 1) = once
    /\ \A resp \in DownloadsResponses, c \in {CratesSources[n] : n \in DOMAIN CratesSources} :
          LET once == InsertResponse(crates_downloads, c, resp)
          IN  InsertResponse(once.tbl, c, resp) = once

\* C18: after any sequence of insert_github_snapshot and insert_crates_download
\* calls each raw table holds at most one row per key, every key that was
\* inserted has exactly one row and its count is that of the latest call for
\* the key, and a collection repeated with the same upstream data on the same
\* day leaves the raw tables as they are after the first
C18_RawOverwritePerKey ==
    /\ GithubKeyUnique(github_snapshots)
    /\ CratesKeyUnique(crates_downloads)
    /\ \A k \in DOMAIN last_raw :
          RawRowsAt(k) = {[key |-> k, count |-> last_raw[k].count]}
    /\ CollectedTwice

\* in each raw table a key holds the count of a later call after another
\* count was stored under it, and a collection of two assets has something to
\* overwrite
C18_Witness ==
    /\ \E releases \in FetchedReleases :
          /\ InsertReleases(github_snapshots, today, releases, 1) # github_snapshots
          /\ Cardinality(InsertReleases(github_snapshots, today, releases, 1))
                = Cardinality(github_snapshots)
    /\ \E r \in github_snapshots :
          /\ r.download_count = 3
          /\ last_raw[<<"github_snapshots", r.date, r.release_tag, r.asset_name>>]
                = [count |-> 3, replaced |-> TRUE]
    /\ \E r \in crates_downloads :
          /\ r.downloads = 1
          /\ last_raw[<<"crates_downloads", r.date, r.crate_name, r.version>>]
                = [count |-> 1, replaced |-> TRUE]

(***************************************************************************)
(* C19                                                                     *)
(***************************************************************************)
\* C19: no step of an aggregation run, of one that returns Ok and of one that
\* returns Err alike, changes github_snapshots, crates_downloads or
\* crates_metadata
C19_AggregationKeepsRaw ==
    [][(pc \in {"crates_scan", "crates_write", "github_write"}) => (raw' = raw)]_vars

\* a run over a store with rows in both tables has written crates rows and
\* then failed in the GitHub stage
C19_Witness ==
    /\ pc = "idle"
    /\ result.status = "err"
    /\ result.context = GithubContext
    /\ github_snapshots # {}
    /\ crates_downloads # {}
    /\ weekly_stats # pre

(***************************************************************************)
(* C20                                                                     *)
(***************************************************************************)
\* C20: across collections, aggregation runs, queries and exports, every
\* (week_start, source, identifier) key of weekly_stats is still a key of
\* weekly_stats after the next step
C20_Original ==
    [][\A w \in weekly_stats :
          \E v \in weekly_stats' : WeeklyKey(v) = WeeklyKey(w)]_vars

(***************************************************************************)
(* C21                                                                     *)
(***************************************************************************)
\* a step of the query command or of the export command
QueryOrExportStep ==
    \/ \E kind \in QueryKinds, source \in QuerySources : RunQuery(kind, source)
    \/ \E format \in ExportFormats, table \in ExportTables, output \in OutputPaths :
          RunExport(format, table, output)

\* C21: a query (weekly, total, latest) or an export (csv, json), whether it
\* returns Ok or Err, leaves weekly_stats and the three raw tables with the
\* rows they had
C21_Original ==
    [][QueryOrExportStep => (raw' = raw /\ weekly_stats' = weekly_stats)]_vars

(***************************************************************************)
(* C22                                                                     *)
(***************************************************************************)
\* C22: once compute_all_weekly is past the scan of a source that has no raw
\* row, that source's stage has not failed, no insert_weekly_stat call was made
\* for the source and its weekly rows are those of before the run; on an empty
\* raw store the run returns Ok with weekly_stats as it was
C22_EmptySourceIsNoError ==
    /\ (crates_downloads = {} /\ pc # "crates_scan") =>
          /\ ~(result.status = "err" /\ result.context = CratesContext)
          /\ \A k \in DOMAIN last_put : k[2] # "crates"
          /\ CratesWeeklyRows = {w \in pre : w.source = "crates"}
    /\ (github_snapshots = {} /\ pc # "crates_scan") =>
          /\ ~(result.status = "err" /\ result.context = GithubContext)
          /\ \A k \in DOMAIN last_put : k[2] # "github"
          /\ GithubWeeklyRows = {w \in pre : w.source = "github"}
    /\ (crates_downloads = {} /\ github_snapshots = {} /\ pc = "idle") =>
          /\ result = Ok
          /\ weekly_stats = pre

\* a run over a store with GitHub snapshots and no crates.io row has returned
\* Ok: it wrote a GitHub row and left the crates row of an earlier run alone
C22_Witness ==
    /\ pc = "idle"
    /\ result = Ok
    /\ crates_downloads = {}
    /\ CratesWeeklyRows # {}
    /\ \E k \in DOMAIN last_put : k[2] = "github"

(***************************************************************************)
(* C23                                                                     *)
(***************************************************************************)
\* a step in which a request to GitHub or to crates.io fails
FailedRequest ==
    \/ CollectGithubFail
    \/ CollectCratesMetadataFail
    \/ CollectCratesDownloadsFail

\* the stage of run_collect a position belongs to
StageOf(p) ==
    IF p \in {"collect_github", "insert_github", "add_overflows"}
    THEN "collect_github"
    ELSE IF p \in {"collect_crates", "fetch_downloads", "insert_crates"}
    THEN "collect_crates"
    ELSE IF p \in {"crates_scan", "crates_write", "github_write"} THEN "aggregate"
    ELSE "end"

\* the stages of run_collect in their order
StageRank(p) ==
    IF StageOf(p) = "collect_github" THEN 1
    ELSE IF StageOf(p) = "collect_crates" THEN 2
    ELSE IF StageOf(p) = "aggregate" THEN 3
    ELSE 4

\* C23: a running collect command only moves on to a later stage (GitHub
\* collection, crates.io collection, aggregation, end), the collection stages
\* leave weekly_stats alone, and a failing request ends the command with Err
\* at once: nothing more is collected and weekly_stats is as the command found it
C23_FailureAbortsRun ==
    [][/\ pc # "idle" => StageRank(pc') >= StageRank(pc)
       /\ StageOf(pc) \in {"end", "collect_github", "collect_crates"} =>
             weekly_stats' = weekly_stats
       /\ FailedRequest =>
             /\ pc' = "idle"
             /\ result'.status = "err"
             /\ github_snapshots' = github_snapshots
             /\ crates_downloads' = crates_downloads]_vars

\* a collect command that was to collect and aggregate has ended at a failed
\* crates.io downloads request, over a store that an earlier run aggregated
C23_Witness ==
    /\ pc = "idle"
    /\ result = Err("failed to fetch downloads", NoDate)
    /\ github_snapshots # {}
    /\ crates_metadata # {}
    /\ weekly_stats # {}

(***************************************************************************)
(* C24                                                                     *)
(***************************************************************************)
\* the stages the running command still has before it: the one it is in, then
\* those to come ("aggregate" for the three positions of compute_all_weekly)
Plan ==
    IF pc = "idle" THEN {}
    ELSE {StageOf(pc)} \cup {StageOf(stages[n]) : n \in DOMAIN stages}

\* the same after the step
PlanAfter ==
    IF pc' = "idle" THEN {}
    ELSE {StageOf(pc')} \cup {StageOf(stages'[n]) : n \in DOMAIN stages'}

\* C24: a collect command starts with exactly the stages whose skip flag is
\* not set before it and never gains one; a stage that is before it is not
\* passed over while the command goes on; and github_snapshots changes only
\* in the GitHub stage, crates_downloads and crates_metadata only in the
\* crates.io stage, weekly_stats only in the aggregation stage. So a skipped
\* stage's tables are as the command found them.
C24_SkipFlagsAreFrames ==
    [][/\ \A sg \in BOOLEAN, sc \in BOOLEAN, sa \in BOOLEAN, now \in Days :
             RunCollect(sg, sc, sa, now) =>
                /\ ("collect_github" \in PlanAfter) = ~sg
                /\ ("collect_crates" \in PlanAfter) = ~sc
                /\ ("aggregate" \in PlanAfter) = ~sa
       /\ pc # "idle" => PlanAfter \subseteq Plan
       /\ (pc # "idle" /\ result'.status \notin {"err", "crashed", "killed"}) =>
             \/ PlanAfter = Plan
             \/ /\ StageOf(pc) \in {"collect_github", "collect_crates"}
                /\ PlanAfter = Plan \ {StageOf(pc)}
             \/ /\ pc = "github_write"
                /\ PlanAfter = {}
       /\ github_snapshots' # github_snapshots => StageOf(pc) = "collect_github"
       /\ (crates_downloads' # crates_downloads \/ crates_metadata' # crates_metadata)
             => StageOf(pc) = "collect_crates"
       /\ weekly_stats' # weekly_stats => StageOf(pc) = "aggregate"]_vars

\* a command with skip_aggregation set is in its crates.io stage after its
\* GitHub stage has stored a snapshot for the day, over a store that an earlier
\* command aggregated
C24_Witness ==
    /\ pc = "collect_crates"
    /\ stages = <<>>
    /\ weekly_stats # {}
    /\ \E r \in github_snapshots : r.date = to_string(today)

(***************************************************************************)
(* C25                                                                     *)
(***************************************************************************)
\* C25: an export (csv or json) of the table 'weekly', 'daily' or 'all' from a
\* database to another file returns Ok, not an error
C25_Original ==
    [][\A format \in ExportFormats, table \in {"weekly", "daily", "all"} :
          (database = "sqlite" /\ RunExport(format, table, "weekly.out"))
             => result'.status = "ok"]_vars

(***************************************************************************)
(* C26                                                                     *)
(***************************************************************************)
\* C26: once compute_all_weekly has returned Ok, after whatever collections
\* and runs came before, and until the raw store changes again, weekly_stats
\* is the set of rows computed from the raw store alone: no key is missing,
\* none is left over, and every total is the recomputed one
C26_WeeklyIsRecomputation ==
    ended = "ok" => weekly_stats = FullRows

\* a run has returned Ok over a table that an earlier run had filled: it has
\* replaced a total of that run and added a week, and holds two weeks now
C26_Witness ==
    /\ pc = "idle"
    /\ ended = "ok"
    /\ \E old \in pre : old \notin weekly_stats
    /\ Cardinality(weekly_stats) = 2
    /\ weekly_stats = FullRows

(***************************************************************************)
(* C27: fetch_releases asks for pages 1, 2, 3, ... in order; it returns at *)
(* the first page of fewer than 100 releases with the concatenation of all *)
(* pages it got; a failing request on any page makes the call return an    *)
(* error and no releases; and the call returns once the server has sent a  *)
(* short page or a failure.                                                *)
(***************************************************************************)
RECURSIVE Concatenation(_)
Concatenation(pages) ==
    IF pages = <<>> THEN <<>>
    ELSE pages[1].releases \o Concatenation(Tail(pages))

FullPage(r) == r.failure = "" /\ Len(r.releases) = PerPage
ShortPage(r) == r.failure = "" /\ Len(r.releases) < PerPage

FetchInOrder ==
    /\ \A i \in DOMAIN fetch.received : fetch.received[i].page = i
    /\ \A i \in DOMAIN fetch.received :
          i < Len(fetch.received) => FullPage(fetch.received[i])
    /\ fetch.status = "running" =>
          /\ fetch.page = Len(fetch.received) + 1
          /\ \A i \in DOMAIN fetch.received : FullPage(fetch.received[i])
          /\ fetch.returned = <<>>
    /\ fetch.status = "ok" =>
          /\ fetch.received # <<>>
          /\ ShortPage(fetch.received[Len(fetch.received)])
          /\ fetch.returned = <<"Ok", Concatenation(fetch.received)>>
    /\ fetch.status = "err" =>
          /\ fetch.received # <<>>
          /\ fetch.received[Len(fetch.received)].failure \in FetchFailures
          /\ fetch.returned = <<"Err", fetch.received[Len(fetch.received)].failure>>
          /\ fetch.all_releases = <<>>

C27_FetchReleasesPaginates ==
    /\ []FetchInOrder
    /\ (fetch.status = "running") ~> (fetch.status \in {"ok", "err"})

C27_Witness ==
    /\ fetch.status = "ok"
    /\ Len(fetch.received) = 3
    /\ Len(fetch.returned[2]) = 2 * PerPage + 50
    /\ fetch.returned[2][PerPage + 1] = <<2, 1>>
    /\ FetchInOrder

(***************************************************************************)
(* C28: collect_github_stats writes rows only for releases whose tag       *)
(* starts with "cargo-nextest-": no row of github_snapshots carries any    *)
(* other tag, every row a run writes is dated today and is an asset of a   *)
(* matching release of the fetched listing, and once the function has gone *)
(* through the listing every asset of every matching release has a row     *)
(* dated today under its tag and name, holding the count of the last asset *)
(* fetched under that tag and name (its own count when the listing does    *)
(* not repeat a name under one tag).                                       *)
(***************************************************************************)
\* asset j of release i is the last one fetched with its tag and name
LastOfItsName(releases, i, j) ==
    \A i2 \in DOMAIN releases : \A j2 \in DOMAIN releases[i2].assets :
        (/\ releases[i2].tag_name = releases[i].tag_name
         /\ releases[i2].assets[j2].name = releases[i].assets[j].name)
        => (i2 < i \/ (i2 = i /\ j2 <= j))

\* asset j of release i of the fetched releases has its row dated today,
\* holding the count of the last asset fetched under its tag and name
HasItsRow(tbl, releases, i, j) ==
    \E r \in tbl :
        /\ r.date = to_string(today)
        /\ r.release_tag = releases[i].tag_name
        /\ r.asset_name = releases[i].assets[j].name
        /\ \E i2 \in DOMAIN releases : \E j2 \in DOMAIN releases[i2].assets :
              /\ releases[i2].tag_name = releases[i].tag_name
              /\ releases[i2].assets[j2].name = releases[i].assets[j].name
              /\ LastOfItsName(releases, i2, j2)
              /\ r.download_count = releases[i2].assets[j2].download_count

\* asset j of release i of the fetched releases has its row dated today,
\* holding the count reported for it
HasItsOwnCount(tbl, releases, i, j) ==
    \E r \in tbl :
        /\ r.date = to_string(today)
        /\ r.release_tag = releases[i].tag_name
        /\ r.asset_name = releases[i].assets[j].name
        /\ r.download_count = releases[i].assets[j].download_count

\* no stored row carries a tag that does not start with "cargo-nextest-"
OnlyMatchingTags ==
    \A r \in github_snapshots : StartsWithCargoNextest(r.release_tag)

\* a step changes github_snapshots only by an insert of the collector, and
\* every row it writes is dated today and is an asset of a matching release
\* of the listing; a listing without such an asset leaves no insert to make
WritesFetchedAssets ==
    /\ \A releases \in FetchedListings : CollectGithub(releases) =>
          \/ github_releases' = releases
          \/ /\ pending' = <<>>
             /\ \A i \in DOMAIN releases :
                   \/ ~StartsWithCargoNextest(releases[i].tag_name)
                   \/ releases[i].assets = <<>>
    /\ github_snapshots' # github_snapshots => pc = "insert_github"
    /\ \A r \in github_snapshots' \ github_snapshots :
          /\ r.date = to_string(today)
          /\ \E i \in DOMAIN github_releases :
                \E j \in DOMAIN github_releases[i].assets :
                  /\ StartsWithCargoNextest(github_releases[i].tag_name)
                  /\ github_releases[i].tag_name = r.release_tag
                  /\ github_releases[i].assets[j].name = r.asset_name
                  /\ github_releases[i].assets[j].download_count
                        = r.download_count

\* the step in which the collector makes the last insert of its listing
LastInsert ==
    /\ pc \in {"insert_github", "add_overflows"}
    /\ pc' = "insert_github"
    /\ pending # <<>>
    /\ pending' = <<>>

C28_OnlyCargoNextestReleases ==
    /\ []OnlyMatchingTags
    /\ [][/\ WritesFetchedAssets
          /\ LastInsert =>
                \A i \in DOMAIN github_releases :
                    \A j \in DOMAIN github_releases[i].assets :
                        StartsWithCargoNextest(github_releases[i].tag_name) =>
                            HasItsRow(github_snapshots', github_releases, i, j)
      ]_vars

\* C28 as stated: every asset of every matching release has a row dated
\* today with the count reported for that asset
C28_Original ==
    /\ []OnlyMatchingTags
    /\ [][/\ WritesFetchedAssets
          /\ LastInsert =>
                \A i \in DOMAIN github_releases :
                    \A j \in DOMAIN github_releases[i].assets :
                        StartsWithCargoNextest(github_releases[i].tag_name) =>
                            HasItsOwnCount(github_snapshots', github_releases,
                                           i, j)
      ]_vars

\* the collector has passed over a release with another tag and its asset,
\* stored the first asset of the cargo-nextest release that follows it in
\* the listing, and has the second, of another name and count, still to
\* store
C28_Witness ==
    /\ pc = "insert_github"
    /\ Len(github_releases) = MaxListing
    /\ ~StartsWithCargoNextest(github_releases[1].tag_name)
    /\ github_releases[1].assets # <<>>
    /\ StartsWithCargoNextest(github_releases[2].tag_name)
    /\ Len(github_releases[2].assets) = MaxAssets
    /\ github_releases[2].assets[1].name # github_releases[2].assets[2].name
    /\ github_releases[2].assets[1].download_count
          # github_releases[2].assets[2].download_count
    /\ Len(pending) = 1
    /\ pending[1].asset_name = github_releases[2].assets[2].name
    /\ github_snapshots =
          {[date |-> to_string(today),
            release_tag |-> github_releases[2].tag_name,
            asset_name |-> github_releases[2].assets[1].name,
            download_count |-> github_releases[2].assets[1].download_count]}

(***************************************************************************)
(* C29: when compute_github_weekly's loop has run over a store in which    *)
(* every (release_tag, asset_name) key's counts are non-decreasing in date *)
(* order, the GitHub weekly totals summed over all weeks equal the sum     *)
(* over all keys of (latest count - earliest count); whatever the counts,  *)
(* the summed totals are at least (latest - earliest) of every single key. *)
(* The same holds of the rows the insert loop has written when the run     *)
(* has returned Ok.                                                        *)
(***************************************************************************)
SnapshotKeys == {<<r.release_tag, r.asset_name>> : r \in github_snapshots}
SnapshotsOf(k) ==
    {r \in github_snapshots : r.release_tag = k[1] /\ r.asset_name = k[2]}
LatestCount(k) ==
    (CHOOSE r \in SnapshotsOf(k) :
        \A o \in SnapshotsOf(k) : o = r \/ DateTextLess(o.date, r.date)).download_count
EarliestCount(k) ==
    (CHOOSE r \in SnapshotsOf(k) :
        \A o \in SnapshotsOf(k) : o = r \/ DateTextLess(r.date, o.date)).download_count
CountsNonDecreasing ==
    \A a \in github_snapshots, b \in github_snapshots :
        (/\ a.release_tag = b.release_tag
         /\ a.asset_name = b.asset_name
         /\ DateTextLess(a.date, b.date)) => a.download_count <= b.download_count

RECURSIVE SumGrowth(_)
\* the sum over the keys in K of latest count - earliest count
SumGrowth(K) ==
    IF K = {} THEN 0
    ELSE LET k == CHOOSE x \in K : TRUE
         IN  (LatestCount(k) - EarliestCount(k)) + SumGrowth(K \ {k})

RECURSIVE SumTotals(_, _)
\* the sum of the map m over the keys in D
SumTotals(m, D) ==
    IF D = {} THEN 0
    ELSE LET w == CHOOSE x \in D : TRUE
         IN  m[w] + SumTotals(m, D \ {w})

GithubPuts == {k \in DOMAIN last_put : k[2] = "github"}

TotalsTelescope(total) ==
    /\ CountsNonDecreasing => total = SumGrowth(SnapshotKeys)
    /\ \A k \in SnapshotKeys : total >= LatestCount(k) - EarliestCount(k)

C29_WeeklyTotalsTelescope ==
    /\ pc = "github_write" => TotalsTelescope(SumTotals(weekly_data, DOMAIN weekly_data))
    /\ (pc = "idle" /\ result = Ok) =>
          /\ TotalsTelescope(SumTotals(last_put, GithubPuts))
          /\ \A k \in GithubPuts :
                \E w \in weekly_stats :
                    /\ w.week_start = k[1] /\ w.source = "github"
                    /\ w.identifier = "releases" /\ w.downloads = last_put[k]

\* one key over two weeks with growth in the later one, and a second key
C29_Witness ==
    /\ pc = "idle"
    /\ result = Ok
    /\ CountsNonDecreasing
    /\ Cardinality(SnapshotKeys) = 2
    /\ SumGrowth(SnapshotKeys) = 2
    /\ SumTotals(last_put, GithubPuts) = 2

\* counts that fall and rise again: the totals exceed latest - earliest
C29_WitnessRegression ==
    /\ pc = "idle"
    /\ result = Ok
    /\ ~CountsNonDecreasing
    /\ Cardinality(GithubPuts) = 2
    /\ \E k \in SnapshotKeys :
          SumTotals(last_put, GithubPuts) > LatestCount(k) - EarliestCount(k)

(***************************************************************************)
(* C30: two compute_all_weekly runs over the same unchanged raw store,     *)
(* their upserts interleaved in any order, leave weekly_stats as one run   *)
(* alone leaves it: as soon as one of them has finished without a failure  *)
(* on the write lock, and whatever the other has done so far, every key    *)
(* holds its recomputed value; when both have ended, it does, and the log  *)
(* is checkpointed. A run whose INSERT fails on the lock ends with Err,    *)
(* and then the run that held the lock does not fail on it; the runs that  *)
(* did not fail on the lock return the same result.                        *)
(***************************************************************************)
RECURSIVE UpsertCrates(_, _, _)
\* the insert loop of compute_crates_weekly over the keys K of m
UpsertCrates(tbl, m, K) ==
    IF K = {} THEN tbl
    ELSE LET k == CHOOSE x \in K : TRUE
         IN  UpsertCrates(insert_weekly_stat(tbl, k[1], "crates", k[2], m[k]),
                          m, K \ {k})

RECURSIVE UpsertGithub(_, _, _)
\* the insert loop of compute_github_weekly over the weeks K of m
UpsertGithub(tbl, m, K) ==
    IF K = {} THEN tbl
    ELSE LET w == CHOOSE x \in K : TRUE
         IN  UpsertGithub(insert_weekly_stat(tbl, w, "github", "releases", m[w]),
                          m, K \ {w})

\* weekly_stats after one compute_all_weekly alone, started on tbl
RunAlone(tbl) ==
    LET c == CratesScan(CratesQuery(crates_downloads), 1, EmptyMap)
        g == GithubScan(GithubQuery(github_snapshots), 1, GithubInit)
    IN  IF ~c.ok THEN tbl
        ELSE LET after == UpsertCrates(tbl, c.weekly_data, DOMAIN c.weekly_data)
             IN  IF ~g.ok THEN after
                 ELSE UpsertGithub(after, g.weekly_data, DOMAIN g.weekly_data)

\* an INSERT of run p has failed on the lock
LockFailed(p) == runs[p].result \in {Locked(at) : at \in InsertPositions}

\* run p has ended and no INSERT of it failed on the lock
Finished(p) ==
    /\ runs[p].pc = "done"
    /\ ~LockFailed(p)

C30_InterleavedRunsAgree ==
    runs # NoRuns =>
        /\ (\E p \in Processes : Finished(p)) => weekly_stats = RunAlone(pre)
        /\ (\A p \in Processes : runs[p].pc = "done") =>
              /\ weekly_stats = RunAlone(pre)
              /\ wal = {}
        /\ \A p \in Processes, q \in Processes :
              (Finished(p) /\ Finished(q)) => runs[p].result = runs[q].result
        /\ \A p \in Processes :
              LockFailed(p) => \E q \in Processes \ {p} : ~LockFailed(q)

\* both runs returned Ok after writing two crates rows and a GitHub row over
\* a stale one
C30_Witness ==
    /\ runs # NoRuns
    /\ \A p \in Processes : runs[p].pc = "done" /\ runs[p].result = Ok
    /\ weekly_stats # pre
    /\ pre # {}
    /\ Cardinality(weekly_stats) >= 2
    /\ weekly_stats = RunAlone(pre)

====
